---- MODULE Spec2Model ----
(***************************************************************************)
(* A model of the trifle slog handler (package miren.dev/trifle).          *)
(*                                                                         *)
(* Text is a sequence of one-character strings, so that lengths, quoting   *)
(* and truncation are computed as the Go code computes them.  A Buffer is  *)
(* a sequence of chunks, one chunk per write call; a chunk carries the     *)
(* role of the call site (tk), the colour the text is wrapped in (st) and  *)
(* the visible text (txt).  Colour escape sequences have no width, so the  *)
(* visible length of a chunk is Len(txt).                                  *)
(***************************************************************************)
EXTENDS Integers, Sequences, FiniteSets, TLC

\* ------------------------------------------------------------------------
\* Bounds of the model
\* ------------------------------------------------------------------------
\* number of TextHandler values (the one made by New included)
MaxHandlers == 3
\* the same, in the runs with two goroutines
MaxConcHandlers == 2

\* ------------------------------------------------------------------------
\* Text
\* ------------------------------------------------------------------------
kRid == <<"r", "i", "d">>
kSid == <<"s", "i", "d">>
kK == <<"k">>
kErr == <<"e", "r", "r">>
kGrp == <<"g", "r", "p">>
kEg == <<"e", "g">>
gA == <<"a">>
ModuleKey == <<"m", "o", "d", "u", "l", "e">>
TimeKey == <<"t", "i", "m", "e">>
MessageKey == <<"m", "s", "g">>

EmptyStr == <<>>
vX == <<"x">>
vY == <<"y">>
vZ == <<"z">>

\* ------------------------------------------------------------------------
\* slog.Value, slog.Attr, slog.Record
\* ------------------------------------------------------------------------
Value(kind, str, num, time, any, group) ==
    [kind |-> kind, str |-> str, num |-> num, time |-> time, any |-> any, group |-> group]

NoTime == [sec |-> 0, ms |-> 0]
StringValue(s) == Value("String", s, 0, NoTime, "", <<>>)
Int64Value(n) == Value("Int64", <<>>, n, NoTime, "", <<>>)
TimeValue(t) == Value("Time", <<>>, 0, t, "", <<>>)
GroupValue(as) == Value("Group", <<>>, 0, NoTime, "", as)
\* slog.Value{} : KindAny holding nil
NilValue == Value("Any", <<>>, 0, NoTime, "nil", <<>>)

Attr(key, value) == [Key |-> key, Value |-> value]
\* slog.Attr{}
EmptyAttr == Attr(<<>>, NilValue)
\* slog.Any(slog.SourceKey, recordSource(r)): a *slog.Source for file f, line 1
SourceKey == <<"s", "o", "u", "r", "c", "e">>
SourceValue == Value("Any", <<>>, 0, NoTime, "source", <<>>)
SourceText == <<"f", ":", "1">>

\* ------------------------------------------------------------------------
\* Numbers and times as text
\* ------------------------------------------------------------------------
Digit(d) ==
    CASE d = 0 -> "0" [] d = 1 -> "1" [] d = 2 -> "2" [] d = 3 -> "3" [] d = 4 -> "4"
      [] d = 5 -> "5" [] d = 6 -> "6" [] d = 7 -> "7" [] d = 8 -> "8" [] OTHER -> "9"

RECURSIVE FormatUint(_)
FormatUint(n) == IF n < 10 THEN <<Digit(n)>> ELSE FormatUint(n \div 10) \o <<Digit(n % 10)>>

\* strconv.FormatInt(n, 10)
FormatInt(n) == IF n < 0 THEN <<"-">> \o FormatUint(0 - n) ELSE FormatUint(n)

RECURSIVE Pad(_, _)
\* n in decimal, zero-padded to w digits
Pad(n, w) == IF w = 0 THEN <<>> ELSE Pad(n \div 10, w - 1) \o <<Digit(n % 10)>>

\* A time.Time is a number of seconds since the Unix epoch and the milliseconds
\* past that second, in UTC.  A time.Duration is a number of milliseconds.
Time(sec, ms) == [sec |-> sec, ms |-> ms]
MsPerSecond == 1000
SecondsPerHour == 3600
SecondsPerDay == 86400
Hour == SecondsPerHour * MsPerSecond
EpochYear == 1970
\* the largest time.Duration of the model; Sub saturates at it as Go's does at its own
MaxDuration == 2000000000
\* the room a newly allocated array has beyond what was asked for
AllocSlack == 4
\* the seconds of the zero time.Time, January 1 of year 1 (a stand-in for -62135596800)
ZeroSeconds == -2147483647
ZeroTime == Time(ZeroSeconds, 0)

\* time.Time.IsZero
IsZero(t) == t = ZeroTime
\* time.Unix(sec, 0)
TimeUnix(sec) == Time(sec, 0)
\* time.Time.Unix
Unix(t) == t.sec
\* time.Time.Sub
Sub(t, u) ==
    LET d == t.sec - u.sec
    IN IF d > MaxDuration \div MsPerSecond - 1 THEN MaxDuration
       ELSE IF d < 1 - MaxDuration \div MsPerSecond THEN 0 - MaxDuration
       ELSE d * MsPerSecond + (t.ms - u.ms)

IsLeap(y) == (y % 4 = 0 /\ y % 100 # 0) \/ y % 400 = 0
DaysInYear(y) == IF IsLeap(y) THEN 366 ELSE 365

\* the year and the zero-based day in it of day d counted from January 1 of year y
YearAndDay(y, d) ==
    LET leapsBefore(x) == (x - 1) \div 4 - (x - 1) \div 100 + (x - 1) \div 400
        \* the days from January 1 of year y to January 1 of year x
        daysBefore(x) == (365 * (x - y)) + leapsBefore(x) - leapsBefore(y)
        near == ((y + d \div 365 - 1)..(y + d \div 366 + 1))
                    \cup ((y + d \div 366 - 1)..(y + d \div 365 + 1))
        year == CHOOSE x \in near : daysBefore(x) <= d /\ d < daysBefore(x + 1)
    IN [year |-> year, day |-> d - daysBefore(year)]

\* time.Time.YearDay
YearDay(t) == YearAndDay(EpochYear, t.sec \div SecondsPerDay).day + 1

DaysInMonth(y, m) ==
    IF m = 2 THEN (IF IsLeap(y) THEN 29 ELSE 28)
    ELSE IF m \in {4, 6, 9, 11} THEN 30 ELSE 31

RECURSIVE MonthAndDay(_, _, _)
MonthAndDay(y, m, d) ==
    IF d >= DaysInMonth(y, m) THEN MonthAndDay(y, m + 1, d - DaysInMonth(y, m))
    ELSE [month |-> m, day |-> d + 1]

\* "15:04:05"
FormatSeconds(t) ==
    LET sod == t.sec % SecondsPerDay
    IN Pad(sod \div SecondsPerHour, 2) \o <<":">> \o Pad((sod \div 60) % 60, 2) \o <<":">>
       \o Pad(sod % 60, 2)

\* "15:04:05.000"
FormatClock(t) == FormatSeconds(t) \o <<".">> \o Pad(t.ms, 3)

\* "2006-01-02"
FormatDate(t) ==
    LET yd == YearAndDay(EpochYear, t.sec \div SecondsPerDay)
        md == MonthAndDay(yd.year, 1, yd.day)
    IN Pad(yd.year, 4) \o <<"-">> \o Pad(md.month, 2) \o <<"-">> \o Pad(md.day, 2)

\* t.Format(MiniTimeFormat)
MiniTimeFormat(t) == FormatClock(t)
\* t.Format(TimeFormat); the zone of a UTC time is written Z
TimeFormat(t) == FormatDate(t) \o <<"T">> \o FormatClock(t) \o <<"Z">>

RECURSIVE TrimZeros(_)
TrimZeros(ds) == IF ds # <<>> /\ ds[Len(ds)] = "0" THEN TrimZeros(SubSeq(ds, 1, Len(ds) - 1)) ELSE ds

\* time.Time.String of a UTC time
TimeString(t) ==
    LET frac == TrimZeros(Pad(t.ms, 3))
    IN FormatDate(t) \o <<" ">> \o FormatSeconds(t)
       \o (IF frac = <<>> THEN <<>> ELSE <<".">> \o frac)
       \o <<" ", "+", "0", "0", "0", "0", " ", "U", "T", "C">>

\* ------------------------------------------------------------------------
\* Quoting
\* ------------------------------------------------------------------------
\* the delete character, U+007F, and the no-break space, U+00A0
DEL == "DEL"
NBSP == "NBSP"
\* the characters of utf8.RuneSelf and above
NonAsciiChars == {NBSP}
\* the ASCII characters for which safeSet holds false
UnsafeChars == {"\"", "\\", "\n", "\t", "\r"}
\* the characters that unicode.IsPrint rejects
NonPrintChars == {"\n", "\t", "\r", DEL, NBSP}
\* the characters of utf8.RuneSelf and above that unicode.IsSpace accepts
SpaceRunes == {NBSP}

safeSet(c) == c \notin UnsafeChars

needsQuoting(s) ==
    \/ Len(s) = 0
    \/ \E i \in 1..Len(s) :
          IF s[i] \notin NonAsciiChars
          THEN s[i] # "\\" /\ (s[i] = " " \/ s[i] = "=" \/ ~safeSet(s[i]))
          ELSE s[i] \in SpaceRunes \/ s[i] \in NonPrintChars

\* what strconv.Quote writes for one character
QuoteChar(c) ==
    CASE c = "\"" -> <<"\\", "\"">>
      [] c = "\\" -> <<"\\", "\\">>
      [] c = "\n" -> <<"\\", "n">>
      [] c = "\t" -> <<"\\", "t">>
      [] c = "\r" -> <<"\\", "r">>
      [] c = DEL -> <<"\\", "x", "7", "f">>
      [] c = NBSP -> <<"\\", "u", "0", "0", "a", "0">>
      [] OTHER -> <<c>>

RECURSIVE QuoteBody(_)
QuoteBody(s) == IF s = <<>> THEN <<>> ELSE QuoteChar(Head(s)) \o QuoteBody(Tail(s))

\* strconv.Quote
Quote(s) == <<"\"">> \o QuoteBody(s) \o <<"\"">>

\* a test that finds no newline in any text
neverMultiLine(s) == FALSE

\* strings.Contains(s, "\n")
ContainsNewline(s) == \E i \in 1..Len(s) : s[i] = "\n"

\* the escape character, which opens a colour code in a text
ESC == "ESC"

RECURSIVE visibleFrom(_, _)
visibleFrom(s, inCode) ==
    IF s = <<>> THEN 0
    ELSE IF Head(s) = ESC THEN visibleFrom(Tail(s), TRUE)
    ELSE IF inCode /\ Head(s) = "m" THEN visibleFrom(Tail(s), FALSE)
    ELSE IF ~inCode THEN 1 + visibleFrom(Tail(s), inCode)
    ELSE visibleFrom(Tail(s), inCode)

calculateVisibleLength(s) == visibleFrom(s, FALSE)

\* ------------------------------------------------------------------------
\* Buffer and colours
\* ------------------------------------------------------------------------
\* One write call: the role of the call site, the colour wrapped around the
\* text (its escape sequences take no column) and the text.
Chunk(tk, st, txt) == [tk |-> tk, st |-> st, txt |-> txt]

\* color.Color.Colorize / Sprint
Colorize(st, tk, txt) == Chunk(tk, st, txt)

criticalKeyColor == "FgHiRed"
importantKeyColor == "FgHiYellow"
faintBoldColor == "Faint;Bold"
boldColor == "Bold"
contextColor == "Faint"
moduleColor == "Faint"
NoColor == ""

\* Buffer.Len, counted in write calls
BufLen(buf) == Len(buf)
\* Buffer.SetLen
SetLen(buf, pos) == SubSeq(buf, 1, pos)
\* Buffer.WriteString / Write
WriteString(buf, chunk) == Append(buf, chunk)
\* Buffer.WriteNewLine
WriteNewLine(buf) == Append(buf, Chunk("newline", NoColor, <<"\n">>))

\* ------------------------------------------------------------------------
\* Construction options and commonHandler
\* ------------------------------------------------------------------------
Range(f) == {f[i] : i \in DOMAIN f}

\* a map from keys to texts; a missing key reads as the empty text
EmptyMap == [k \in {} |-> <<>>]
MapGet(m, k) == IF k \in DOMAIN m THEN m[k] ELSE <<>>
MapPut(m, k, v) == [x \in (DOMAIN m) \cup {k} |-> IF x = k THEN v ELSE m[x]]

Option(opt, keys, width) == [opt |-> opt, keys |-> keys, width |-> width]

WithImportantKeys(h, keys) == [h EXCEPT !.importantKeys = @ \cup Range(keys)]
WithCriticalKeys(h, keys) == [h EXCEPT !.criticalKeys = @ \cup Range(keys)]
\* a context-keys option that adds its keys to the list
contextKeysAdded(h, keys) == [h EXCEPT !.contextKeys = @ \o keys]

WithContextKey(h, keys) == [h EXCEPT !.contextKeys = keys]
WithTerminalWidth(h, width) == [h EXCEPT !.terminalWidth = width]

ApplyOption(h, o) ==
    CASE o.opt = "WithImportantKeys" -> WithImportantKeys(h, o.keys)
      [] o.opt = "WithCriticalKeys" -> WithCriticalKeys(h, o.keys)
      [] o.opt = "WithContextKey" -> WithContextKey(h, o.keys)
      [] OTHER -> WithTerminalWidth(h, o.width)

RECURSIVE ApplyOptions(_, _)
ApplyOptions(h, options) ==
    IF options = <<>> THEN h ELSE ApplyOptions(ApplyOption(h, Head(options)), Tail(options))

\* the width getTerminalWidth reports for a sink that is no terminal
getTerminalWidth == 0

\* Where the slices and the map of a commonHandler lie.  A slice is a view of
\* an array: arr names the array (0 for none), cap is how far the view may
\* grow inside it, and fresh marks an array that the call under way has
\* allocated and that gets its name when the commonHandler is stored.  A map
\* is named the same way.  The units are those of the model: one chunk of
\* preformattedAttrs, one name of groups.
NilSlice == [arr |-> 0, cap |-> 0, fresh |-> FALSE]
NilMap == [id |-> 0, fresh |-> FALSE]
FreshMap == [id |-> 0, fresh |-> TRUE]
NilMem == [pfa |-> NilSlice, groups |-> NilSlice, cv |-> NilMap]

\* slices.Clip: the same array, with no room left after the last element
Clip(slice, len) == [slice EXCEPT !.cap = len]

\* append of n elements to a slice of len elements: in place when they fit,
\* else in a new array that has room for AllocSlack elements more
Grow(slice, len, n) ==
    IF n = 0 \/ len + n <= slice.cap THEN slice
    ELSE [arr |-> 0, cap |-> len + n + AllocSlack, fresh |-> TRUE]

\* New: opts is the slog.HandlerOptions, options the trifle options in call order
New(opts, options) ==
    ApplyOptions(
        [opts |-> opts,
         preformattedAttrs |-> <<>>,
         groupPrefix |-> <<>>,
         groups |-> <<>>,
         nOpenGroups |-> 0,
         mu |-> 1,
         importantKeys |-> {},
         criticalKeys |-> {},
         contextKeys |-> <<>>,
         contextValues |-> EmptyMap,
         terminalWidth |-> getTerminalWidth,
         lastTime |-> 0,
         mem |-> NilMem],
        options)

\* a clone that keeps the capacity of the slices and takes the map itself
cloneShares(h) ==
    [opts |-> h.opts,
     preformattedAttrs |-> h.preformattedAttrs,
     groupPrefix |-> h.groupPrefix,
     groups |-> h.groups,
     nOpenGroups |-> h.nOpenGroups,
     mu |-> h.mu,
     importantKeys |-> h.importantKeys,
     criticalKeys |-> h.criticalKeys,
     contextKeys |-> h.contextKeys,
     contextValues |-> h.contextValues,
     terminalWidth |-> h.terminalWidth,
     lastTime |-> 0,
     mem |-> h.mem]

\* clone: every field but lastTime is copied; the atomic lastTime of the new
\* commonHandler starts at its zero value.  The slices are clipped views of
\* the arrays of h, and the map, when h has one, is a copy.
clone(h) ==
    [opts |-> h.opts,
     preformattedAttrs |-> h.preformattedAttrs,
     groupPrefix |-> h.groupPrefix,
     groups |-> h.groups,
     nOpenGroups |-> h.nOpenGroups,
     mu |-> h.mu,
     importantKeys |-> h.importantKeys,
     criticalKeys |-> h.criticalKeys,
     contextKeys |-> h.contextKeys,
     contextValues |-> h.contextValues,
     terminalWidth |-> h.terminalWidth,
     lastTime |-> 0,
     mem |-> [pfa |-> Clip(h.mem.pfa, Len(h.preformattedAttrs)),
              groups |-> Clip(h.mem.groups, Len(h.groups)),
              cv |-> IF h.mem.cv = NilMap THEN NilMap ELSE FreshMap]]

attrSep == <<" ">>
keyComponentSep == "."

\* ------------------------------------------------------------------------
\* ReplaceAttr hooks
\* ------------------------------------------------------------------------
NoHook == "nil"
\* a hook that removes every attribute named k
DropK == "dropK"

ReplaceAttr(hook, gs, a) ==
    IF hook = DropK /\ a.Key = kK THEN EmptyAttr ELSE a

\* slog.Value.Resolve: the kinds of the model are not LogValuers
Resolve(v) == v

\* ------------------------------------------------------------------------
\* handleState
\* ------------------------------------------------------------------------
newHandleState(h, buf, freeBuf, sep) ==
    [h |-> h,
     buf |-> buf,
     freeBuf |-> freeBuf,
     sep |-> sep,
     prefix |-> <<>>,
     groupsNil |-> (h.opts.ReplaceAttr = NoHook),
     groups |-> IF h.opts.ReplaceAttr # NoHook THEN SubSeq(h.groups, 1, h.nOpenGroups)
                ELSE <<>>,
     linePos |-> 0,
     needsIndent |-> FALSE]

openGroup(s, name) ==
    [s EXCEPT !.prefix = @ \o name \o <<keyComponentSep>>,
              !.groups = IF s.groupsNil THEN @ ELSE Append(@, name)]

RECURSIVE openGroupsFrom(_, _)
openGroupsFrom(s, names) ==
    IF names = <<>> THEN s ELSE openGroupsFrom(openGroup(s, Head(names)), Tail(names))

openGroups(s) == openGroupsFrom(s, SubSeq(s.h.groups, s.h.nOpenGroups + 1, Len(s.h.groups)))

closeGroup(s, name) ==
    [s EXCEPT !.prefix = SubSeq(@, 1, Len(@) - Len(name) - 1),
              !.sep = attrSep,
              !.groups = IF s.groupsNil THEN @ ELSE SubSeq(@, 1, Len(@) - 1)]

isEmptyGroup(v) == v.kind = "Group" /\ Len(v.group) = 0

countEmptyGroups(as) == Cardinality({i \in 1..Len(as) : isEmptyGroup(as[i].Value)})

isEmpty(a) == a.Key = <<>> /\ a.Value = NilValue

Indent == <<" ", " ", " ", " ">>

appendRawString(s, tk, st, str) ==
    LET s1 == IF s.needsIndent /\ s.h.terminalWidth > 0
              THEN [s EXCEPT !.buf = WriteString(@, Chunk("indent", NoColor, Indent)),
                             !.linePos = 4,
                             !.needsIndent = FALSE]
              ELSE s
    IN [s1 EXCEPT !.buf = WriteString(@, Chunk(tk, st, str)),
                  !.linePos = @ + calculateVisibleLength(str)]

\* a choice of style that looks at the important keys first
importantFirst(h, key) ==
    IF key \in h.importantKeys THEN importantKeyColor
    ELSE IF key \in h.criticalKeys THEN criticalKeyColor
    ELSE faintBoldColor

KeyColor(h, key) ==
    IF key \in h.criticalKeys THEN criticalKeyColor
    ELSE IF key \in h.importantKeys THEN importantKeyColor
    ELSE faintBoldColor

appendKey(s, key) ==
    LET s1 == IF s.sep # <<>>
              THEN [s EXCEPT !.buf = WriteString(@, Chunk("sep", NoColor, s.sep)),
                             !.linePos = @ + calculateVisibleLength(s.sep)]
              ELSE s
        visibleKeyLen == Len(key) + 2
        styled == <<Colorize(KeyColor(s.h, key), "key", key),
                    Colorize(boldColor, "kvsep", <<":", " ">>)>>
    IN IF Len(s1.prefix) > 0
       THEN [s1 EXCEPT !.buf = WriteString(@, Chunk("prefix", NoColor, s1.prefix)) \o styled,
                       !.linePos = @ + Len(s1.prefix) + visibleKeyLen,
                       !.sep = attrSep]
       ELSE [s1 EXCEPT !.buf = @ \o styled,
                       !.linePos = @ + visibleKeyLen,
                       !.sep = attrSep]

\* unicode.IsPrint
IsPrint(c) == c \notin NonPrintChars

needsEscaping(str) == \E i \in 1..Len(str) : ~IsPrint(str[i]) \/ str[i] = "\""

\* what writeEscapedForOutput writes to its scratch buffer for one character
EscapeChar(c, escapeQuotes) ==
    IF escapeQuotes /\ c = "\"" THEN <<"\\", "\"">>
    ELSE IF IsPrint(c) THEN <<c>>
    ELSE CASE c = "\n" -> <<"\\", "n">>
           [] c = "\r" -> <<"\\", "r">>
           [] c = "\t" -> <<"\t">>
           [] c = DEL -> <<"\\", "u", "0", "0", "7", "f">>
           [] c = NBSP -> <<"\\", "u", "0", "0", "a", "0">>
           [] OTHER -> <<"\\", "x">>

RECURSIVE EscapeBody(_, _)
EscapeBody(str, escapeQuotes) ==
    IF str = <<>> THEN <<>>
    ELSE EscapeChar(Head(str), escapeQuotes) \o EscapeBody(Tail(str), escapeQuotes)

writeEscapedForOutput(w, str, escapeQuotes) ==
    IF ~needsEscaping(str) THEN appendRawString(w, "line", NoColor, str)
    ELSE appendRawString(w, "escaped", NoColor, EscapeBody(str, escapeQuotes))

\* strings.IndexByte(str, '\n'), counted from 1; 0 when there is none
IndexNewline(str) ==
    IF ContainsNewline(str)
    THEN CHOOSE i \in 1..Len(str) : str[i] = "\n" /\ \A j \in 1..(i - 1) : str[j] # "\n"
    ELSE 0

\* the glyph that starts every line of a multi-line value
BlockIndent == <<" ", " ", "|", " ">>

RECURSIVE writeIndent(_, _, _)
writeIndent(w, str, indent) ==
    LET nl == IndexNewline(str)
        line(s0, text) ==
            appendRawString(
                writeEscapedForOutput(appendRawString(s0, "blockindent", NoColor, indent),
                                      text, FALSE),
                "linebreak", NoColor, <<"\n">>)
    IN IF nl = 0
       THEN (IF str # <<>> THEN line(w, str) ELSE w)
       ELSE writeIndent(line(w, SubSeq(str, 1, nl - 1)), SubSeq(str, nl + 1, Len(str)), indent)

appendString(s, str) ==
    LET valueLen == IF needsQuoting(str) THEN Len(Quote(str)) ELSE Len(str)
        s1 == IF s.h.terminalWidth > 0 /\ s.linePos > 0
                 /\ s.linePos + valueLen > s.h.terminalWidth
              THEN [s EXCEPT !.buf = WriteString(WriteNewLine(@),
                                                 Chunk("indent", NoColor, Indent)),
                             !.linePos = 4]
              ELSE s
    IN IF ContainsNewline(str)
       THEN [writeIndent(appendRawString(s1, "linebreak", NoColor, <<"\n">>), str, BlockIndent)
                EXCEPT !.linePos = 0]
       ELSE IF needsQuoting(str)
       THEN [s1 EXCEPT !.buf = WriteString(@, Chunk("value", NoColor, Quote(str))),
                       !.linePos = @ + Len(Quote(str))]
       ELSE [s1 EXCEPT !.buf = WriteString(@, Chunk("value", NoColor, str)),
                       !.linePos = @ + Len(str)]

\* appendRFC3339Millis: the time with exactly three fractional digits
appendRFC3339Millis(t) == FormatDate(t) \o <<"T">> \o FormatClock(t) \o <<"Z">>

appendTime(s, t) ==
    [s EXCEPT !.buf = WriteString(@, Chunk("value", NoColor, appendRFC3339Millis(t)))]

\* The payloads of KindAny values that implement encoding.TextMarshaler: one
\* that marshals, one whose MarshalText returns an error, one whose
\* MarshalText panics, and a nil pointer whose MarshalText dereferences it.
TextMarshalers == {"marshals", "marshalErr", "marshalPanic", "nilMarshaler"}

tMarshalled == <<"t", "x", "t">>
tBad == <<"b", "a", "d">>
tBoom == <<"b", "o", "o", "m">>
tNilDeref == <<"n", "i", "l", " ", "d", "e", "r", "e", "f">>

\* what the call tm.MarshalText() does: the data and the error it returns,
\* or the value it panics with
MarshalText(any) ==
    CASE any = "marshalErr" ->
            [data |-> <<>>, err |-> tBad, failed |-> TRUE, panics |-> FALSE, r |-> <<>>]
      [] any = "marshalPanic" ->
            [data |-> <<>>, err |-> <<>>, failed |-> FALSE, panics |-> TRUE, r |-> tBoom]
      [] any = "nilMarshaler" ->
            [data |-> <<>>, err |-> <<>>, failed |-> FALSE, panics |-> TRUE, r |-> tNilDeref]
      [] OTHER ->
            [data |-> tMarshalled, err |-> <<>>, failed |-> FALSE, panics |-> FALSE,
             r |-> <<>>]

\* fmt.Sprintf("%+v", x) of the payload of a KindAny value
SprintAny(any) ==
    CASE any = "source" -> SourceText
      [] any \in TextMarshalers \ {"nilMarshaler"} -> <<"{", "}">>
      [] OTHER -> <<"<", "n", "i", "l", ">">>

\* the package function appendValue: the text of v as fmt.Sprint writes it
appendValueText(v) ==
    CASE v.kind = "String" -> v.str
      [] v.kind = "Int64" -> FormatInt(v.num)
      [] v.kind = "Time" -> TimeString(v.time)
      [] OTHER -> SprintAny(v.any)

\* The call of MarshalText is the one step of appendTextValue that fails, and
\* it comes before the first write: textValueFault is how appendTextValue
\* ends for v, and appendTextValue is the state it leaves when it returns nil.
NoFault == [failed |-> FALSE, panics |-> FALSE, err |-> <<>>, r |-> <<>>]

textValueFault(v) ==
    IF v.kind = "Any" /\ v.any \in TextMarshalers
    THEN LET m == MarshalText(v.any)
         IN [failed |-> m.failed, panics |-> m.panics, err |-> m.err, r |-> m.r]
    ELSE NoFault

appendTextValue(s, v) ==
    CASE v.kind = "String" ->
            IF ContainsNewline(v.str)
            THEN appendRawString(s, "value", NoColor, <<"\n", " ", " ">>)
            ELSE appendString(s, v.str)
      [] v.kind = "Time" -> appendTime(s, v.time)
      [] v.kind = "Any" ->
            IF v.any \in TextMarshalers
            THEN appendString(s, MarshalText(v.any).data)
            ELSE appendString(s, SprintAny(v.any))
      [] OTHER -> [s EXCEPT !.buf = WriteString(@, Chunk("value", NoColor, appendValueText(v)))]

tErrorMark == <<"!", "E", "R", "R", "O", "R", ":">>
tPanicMark == <<"!", "P", "A", "N", "I", "C", ":", " ">>
tNil == <<"<", "n", "i", "l", ">">>

appendError(s, err) == appendString(s, tErrorMark \o err)

\* reflect.ValueOf(v.Any()) is a pointer and is nil
IsNilPointer(v) == v.kind = "Any" /\ v.any = "nilMarshaler"

\* an appendValue that writes nothing for a value that fails
appendValueDropsFault(s, v) ==
    IF textValueFault(v) = NoFault THEN appendTextValue(s, v) ELSE s

\* handleState.appendValue: the deferred function recovers a panic of
\* appendTextValue, and an error it returns goes to appendError
appendValue(s, v) ==
    LET f == textValueFault(v)
    IN IF f.panics
       THEN IF IsNilPointer(v) THEN appendString(s, tNil)
            ELSE appendString(s, tPanicMark \o f.r)
       ELSE IF f.failed THEN appendError(s, f.err)
       ELSE appendTextValue(s, v)

estimateValueLength(v) ==
    CASE v.kind = "String" -> IF needsQuoting(v.str) THEN Len(Quote(v.str)) ELSE Len(v.str)
      [] v.kind = "Int64" -> Len(FormatInt(v.num))
      [] OTHER -> 20

\* an appendAttr that skips no attribute for being a context key
skipsNoContextKey(s, a) == FALSE

\* the test that opens appendAttr: a configured context key is skipped
\* when the state carries no group list or an empty one
isSkippedContextKey(s, a) ==
    /\ Len(s.h.contextKeys) > 0
    /\ (s.groupsNil \/ Len(s.groups) = 0)
    /\ \E i \in 1..Len(s.h.contextKeys) : a.Key = s.h.contextKeys[i]

\* the wrap that appendAttr makes before a key
wrapBeforeKey(s, a) ==
    IF s.h.terminalWidth > 0 /\ s.linePos > 4
    THEN LET sepLen == IF s.sep # <<>> THEN calculateVisibleLength(s.sep) ELSE 0
             keyLen == Len(a.Key) + 2
             valueLen == estimateValueLength(a.Value)
             totalLen == sepLen + keyLen + valueLen
         IN IF s.linePos + totalLen > s.h.terminalWidth
            THEN [s EXCEPT !.buf = WriteString(WriteNewLine(@),
                                               Chunk("indent", NoColor, Indent)),
                           !.linePos = 4,
                           !.sep = <<>>]
            ELSE s
    ELSE s

\* a test that lets every group through
outputEveryGroup(attrs) == TRUE

\* the test of appendAttr that lets only non-empty groups through
outputGroup(attrs) == Len(attrs) > 0

RECURSIVE appendAttr(_, _), appendAttrs(_, _)
\* appendAttr and appendAttrs give the state after the call and what they report
appendAttrs(s, as) ==
    IF as = <<>> THEN [s |-> s, ok |-> FALSE]
    ELSE LET r1 == appendAttr(s, Head(as))
             r2 == appendAttrs(r1.s, Tail(as))
         IN [s |-> r2.s, ok |-> r1.ok \/ r2.ok]

appendAttr(s, a0) ==
    LET a1 == [a0 EXCEPT !.Value = Resolve(@)]
        rep == s.h.opts.ReplaceAttr
        a2 == IF rep # NoHook /\ a1.Value.kind # "Group"
              THEN LET gs == IF s.groupsNil THEN <<>> ELSE s.groups
                       ar == ReplaceAttr(rep, gs, a1)
                   IN [ar EXCEPT !.Value = Resolve(@)]
              ELSE a1
        a == IF a2.Value.kind = "Any" /\ a2.Value.any = "source"
             THEN [a2 EXCEPT !.Value = StringValue(SourceText)]
             ELSE a2
    IN IF isSkippedContextKey(s, a0) THEN [s |-> s, ok |-> FALSE]
       ELSE IF isEmpty(a2) THEN [s |-> s, ok |-> FALSE]
       ELSE IF a.Value.kind = "Group"
       THEN LET attrs == a.Value.group
            IN IF outputGroup(attrs)
               THEN LET pos == BufLen(s.buf)
                        s1 == IF a.Key # <<>> THEN openGroup(s, a.Key) ELSE s
                        r == appendAttrs(s1, attrs)
                    IN IF ~r.ok
                       THEN [s |-> [r.s EXCEPT !.buf = SetLen(@, pos)], ok |-> FALSE]
                       ELSE [s |-> IF a.Key # <<>> THEN closeGroup(r.s, a.Key) ELSE r.s,
                             ok |-> TRUE]
               ELSE [s |-> s, ok |-> TRUE]
       ELSE IF a.Value.kind = "String" /\ ContainsNewline(a.Value.str)
       THEN [s |-> writeIndent(appendRawString(appendKey(s, a.Key),
                                               "linebreak", NoColor, <<"\n">>),
                               a.Value.str, BlockIndent),
             ok |-> TRUE]
       ELSE [s |-> appendValue(appendKey(wrapBeforeKey(s, a), a.Key), a.Value),
             ok |-> TRUE]

\* ------------------------------------------------------------------------
\* fmt.Sprint of a value, as the context section uses it
\* ------------------------------------------------------------------------
RECURSIVE Sprint(_), SprintAttrs(_)
\* fmt.Sprint(v.Any())
Sprint(v) ==
    CASE v.kind = "String" -> v.str
      [] v.kind = "Int64" -> FormatInt(v.num)
      [] v.kind = "Time" -> TimeString(v.time)
      [] v.kind = "Group" -> <<"[">> \o SprintAttrs(v.group) \o <<"]">>
      [] OTHER -> SprintAny(v.any)

\* the elements of a []slog.Attr, each written by Attr.String, with spaces between
SprintAttrs(as) ==
    IF as = <<>> THEN <<>>
    ELSE Head(as).Key \o <<"=">> \o Sprint(Head(as).Value)
         \o (IF Len(as) > 1 THEN <<" ">> ELSE <<>>) \o SprintAttrs(Tail(as))

RECURSIVE Join(_, _)
\* strings.Join
Join(parts, sep) ==
    IF parts = <<>> THEN <<>>
    ELSE IF Len(parts) = 1 THEN Head(parts)
    ELSE Head(parts) \o sep \o Join(Tail(parts), sep)

\* ------------------------------------------------------------------------
\* withAttrs, withGroup
\* ------------------------------------------------------------------------
IsContextKey(h, key) == \E i \in 1..Len(h.contextKeys) : h.contextKeys[i] = key

RECURSIVE cacheContextValues(_, _, _), cacheOverwrites(_, _, _)
\* a loop that lets every attribute that names a context key take its place
cacheOverwrites(cv, keys, as) ==
    IF as = <<>> THEN cv
    ELSE LET a == Head(as)
             cv1 == IF \E i \in 1..Len(keys) : keys[i] = a.Key
                    THEN MapPut(cv, a.Key, Sprint(a.Value))
                    ELSE cv
         IN cacheOverwrites(cv1, keys, Tail(as))

\* the first loop of withAttrs: a context key takes the value of the first
\* attribute that names it while its cached text is empty
cacheContextValues(cv, keys, as) ==
    IF as = <<>> THEN cv
    ELSE LET a == Head(as)
             cv1 == IF (\E i \in 1..Len(keys) : keys[i] = a.Key) /\ MapGet(cv, a.Key) = <<>>
                    THEN MapPut(cv, a.Key, Sprint(a.Value))
                    ELSE cv
         IN cacheContextValues(cv1, keys, Tail(as))

\* a second loop that lets every attribute through
keepsContextKeys(h, as) == as

\* the second loop of withAttrs
filterContextKeys(h, as) == SelectSeq(as, LAMBDA a : ~IsContextKey(h, a.Key))

\* the clone withAttrs works on, with the context values cached
withAttrsClone(h, as) ==
    IF Len(h.contextKeys) > 0
    THEN [clone(h) EXCEPT !.contextValues = cacheContextValues(@, h.contextKeys, as),
                          !.mem.cv = IF @ = NilMap THEN FreshMap ELSE @]
    ELSE clone(h)

\* an end of withAttrs that keeps the prefix and the count of the groups
\* whatever appendAttrs reports
withAttrsKeepsAll(h2, res, pos) ==
    [h2 EXCEPT !.preformattedAttrs = res.s.buf,
               !.groupPrefix = res.s.prefix,
               !.nOpenGroups = Len(h2.groups),
               !.mem.pfa = Grow(@, pos, BufLen(res.s.buf) - pos)]

\* the end of withAttrs: the formatted attributes are kept, or cut away when
\* appendAttrs reports that nothing was written
withAttrsKeep(h2, res, pos) ==
    IF ~res.ok
    THEN [h2 EXCEPT !.preformattedAttrs = SetLen(res.s.buf, pos)]
    ELSE [h2 EXCEPT !.preformattedAttrs = res.s.buf,
                    !.groupPrefix = res.s.prefix,
                    !.nOpenGroups = Len(h2.groups),
                    !.mem.pfa = Grow(@, pos, BufLen(res.s.buf) - pos)]

\* the state withAttrs formats into
withAttrsState(h, h2) ==
    [newHandleState(h2, h2.preformattedAttrs, FALSE, <<>>)
        EXCEPT !.prefix = @ \o h.groupPrefix,
               !.sep = IF Len(h2.preformattedAttrs) > 0 THEN attrSep ELSE @]

withAttrsFormat(h, h2, as2) ==
    withAttrsKeep(h2, appendAttrs(openGroups(withAttrsState(h, h2)), as2),
                  BufLen(h2.preformattedAttrs))

\* a withAttrs that works on a clone whatever the list holds
withAttrsAlwaysClones(h, as) ==
    [same |-> FALSE,
     h |-> withAttrsFormat(h, withAttrsClone(h, as),
                           IF Len(h.contextKeys) > 0 THEN filterContextKeys(h, as)
                           ELSE as)]

\* withAttrs gives the commonHandler it returns and whether that is h itself
withAttrs(h, as) ==
    IF countEmptyGroups(as) = Len(as) THEN [same |-> TRUE, h |-> h]
    ELSE [same |-> FALSE,
          h |-> withAttrsFormat(h, withAttrsClone(h, as),
                                IF Len(h.contextKeys) > 0 THEN filterContextKeys(h, as)
                                ELSE as)]

\* a withGroup that puts the name into the cached prefix at once
withGroupBakes(h, name) ==
    [clone(h) EXCEPT !.groups = Append(@, name),
                     !.groupPrefix = @ \o name \o <<keyComponentSep>>,
                     !.nOpenGroups = Len(h.groups) + 1,
                     !.mem.groups = Grow(@, Len(h.groups), 1)]

withGroup(h, name) ==
    [clone(h) EXCEPT !.groups = Append(@, name),
                     !.mem.groups = Grow(@, Len(h.groups), 1)]

\* ------------------------------------------------------------------------
\* handle
\* ------------------------------------------------------------------------
LevelInfo == "INFO"
LevelError == "ERROR"

_levelToName(l) ==
    IF l = LevelInfo THEN <<" ", "[", "I", "N", "F", "O", "]", " ", " ">>
    ELSE <<" ", "[", "E", "R", "R", "O", "R", "]", " ">>

_levelToColor(l) == IF l = LevelInfo THEN "FgHiBlue" ELSE "FgHiRed"

Marker == <<" ", "|", " ">>

appendShortTime(s, t) ==
    [s EXCEPT !.buf = WriteString(@, Chunk("time", "full", TimeFormat(t))),
              !.linePos = @ + Len(TimeFormat(t))]

appendMiniTime(s, t) ==
    [s EXCEPT !.buf = WriteString(@, Chunk("time", "mini", MiniTimeFormat(t))),
              !.linePos = @ + Len(MiniTimeFormat(t))]

\* the time step of handle without a hook, for the value loaded from lastTime
appendRecordTime(s, val, loaded) ==
    LET lastTime == TimeUnix(loaded)
    IN IF IsZero(lastTime) \/ Sub(val, lastTime) < Hour
          \/ YearDay(val) # YearDay(lastTime)
       THEN appendMiniTime(s, val)
       ELSE appendShortTime(s, val)

RECURSIVE recordValuesInto(_, _, _)
recordValuesInto(m, h, as) ==
    IF as = <<>> THEN m
    ELSE LET a == Head(as)
         IN recordValuesInto(IF IsContextKey(h, a.Key) THEN MapPut(m, a.Key, Sprint(a.Value))
                             ELSE m,
                             h, Tail(as))

\* the map handle builds from the record: a later attribute overwrites an earlier one
recordValues(h, as) == recordValuesInto(EmptyMap, h, as)

RECURSIVE contextParts(_, _, _), recordFirstParts(_, _, _)
\* a resolution that looks at the record before the bound values
recordFirstParts(h, rv, keys) ==
    IF keys = <<>> THEN <<>>
    ELSE LET k == Head(keys)
             rest == recordFirstParts(h, rv, Tail(keys))
         IN IF k \in DOMAIN rv THEN <<rv[k]>> \o rest
            ELSE IF k \in DOMAIN h.contextValues /\ h.contextValues[k] # <<>>
            THEN <<h.contextValues[k]>> \o rest
            ELSE rest

contextParts(h, rv, keys) ==
    IF keys = <<>> THEN <<>>
    ELSE LET k == Head(keys)
             rest == contextParts(h, rv, Tail(keys))
         IN IF k \in DOMAIN h.contextValues /\ h.contextValues[k] # <<>>
            THEN <<h.contextValues[k]>> \o rest
            ELSE IF k \in DOMAIN rv THEN <<rv[k]>> \o rest
            ELSE rest

\* what handle and withAttrs do when appendAttrs reports that nothing was
\* written: the buffer is cut back to the length it had before
cutIfEmpty(res, pos) ==
    IF ~res.ok THEN [res.s EXCEPT !.buf = SetLen(@, pos)] ELSE res.s

\* the first half of appendNonBuiltIns: the attributes bound to the handler
appendPreformatted(s) ==
    IF Len(s.h.preformattedAttrs) > 0
    THEN [s EXCEPT !.buf = (IF s.sep # <<>>
                            THEN WriteString(@, Chunk("sep", NoColor, s.sep))
                            ELSE @) \o s.h.preformattedAttrs,
                   !.sep = attrSep]
    ELSE s

\* the second half of appendNonBuiltIns: the attributes of the record
appendRecordAttrs(s, as) ==
    IF Len(as) > 0
    THEN cutIfEmpty(appendAttrs(openGroups([s EXCEPT !.prefix = @ \o s.h.groupPrefix]), as),
                    BufLen(s.buf))
    ELSE s

\* the attributes of the record written before the bound ones
recordAttrsFirst(s, r) == appendPreformatted(appendRecordAttrs(s, r.Attrs))

appendNonBuiltIns(s, r) == appendRecordAttrs(appendPreformatted(s), r.Attrs)

\* the steps of handle, in the order handle takes them
handleTime(s, r, loaded) ==
    IF ~IsZero(r.Time)
    THEN (IF s.h.opts.ReplaceAttr = NoHook
          THEN appendRecordTime(s, r.Time, loaded)
          ELSE appendAttr(s, Attr(TimeKey, TimeValue(r.Time))).s)
    ELSE s

handleLevel(s, r) ==
    appendRawString(s, "level", _levelToColor(r.Level), _levelToName(r.Level))

handleSource(s) ==
    IF s.h.opts.AddSource
    THEN appendRawString(appendAttr(s, Attr(SourceKey, SourceValue)).s,
                         "space", NoColor, <<" ">>)
    ELSE s

\* a context step that writes a slot for every configured key
handleContextSlots(s, parts) ==
    IF Len(s.h.contextKeys) > 0
    THEN appendRawString(appendRawString(s, "context", contextColor,
                                         Join(parts, <<" ">>) \o <<" ">>),
                         "space", NoColor, <<" ">>)
    ELSE s

handleContext(s, parts) ==
    IF Len(s.h.contextKeys) > 0 /\ Len(parts) > 0
    THEN appendRawString(appendRawString(s, "context", contextColor, Join(parts, <<" ">>)),
                         "space", NoColor, <<" ">>)
    ELSE s

handleModule(s, module) ==
    IF module # <<>>
    THEN appendRawString(appendRawString(s, "module", moduleColor, module),
                         "space", NoColor, <<" ">>)
    ELSE s

handleMarker(s, r) ==
    IF Len(r.Attrs) > 0 \/ Len(s.h.preformattedAttrs) > 0
    THEN appendRawString(s, "marker", NoColor, Marker)
    ELSE s

handleMessage(s, r) ==
    IF s.h.opts.ReplaceAttr = NoHook
    THEN handleMarker(appendRawString(s, "msg", NoColor, r.Message), r)
    ELSE appendAttr(s, Attr(MessageKey, StringValue(r.Message))).s

\* the built-in attributes are written with the group list hidden
hideGroups(s) == [s EXCEPT !.groupsNil = TRUE, !.groups = <<>>]

restoreGroups(s, s0) == [s EXCEPT !.groupsNil = s0.groupsNil, !.groups = s0.groups]

\* handle up to the message: the built-in attributes, the context values and
\* the module name
handleBuiltIns(h, r, module, loaded) ==
    restoreGroups(
        handleMessage(
            handleModule(
                handleContext(
                    handleSource(
                        handleLevel(
                            handleTime(hideGroups(newHandleState(h, <<>>, TRUE, <<>>)),
                                       r, loaded),
                            r)),
                    contextParts(h, recordValues(h, r.Attrs), h.contextKeys)),
                module),
            r),
        newHandleState(h, <<>>, TRUE, <<>>))

\* handle up to the line that takes the lock
handleState(h, r, module, loaded) ==
    appendNonBuiltIns(handleBuiltIns(h, r, module, loaded), r)

\* the line the state holds when Write is called
handleLine(s) == [buf |-> WriteNewLine(s.buf), linePos |-> s.linePos]

\* handle, for the value it loads from h.lastTime: the line it hands to Write
\* and the value it leaves in h.lastTime
handle(h, r, module, loaded) ==
    [buf |-> handleLine(handleState(h, r, module, loaded)).buf,
     lastTime |-> IF ~IsZero(r.Time) /\ h.opts.ReplaceAttr = NoHook
                  THEN Unix(r.Time) ELSE loaded]

\* ------------------------------------------------------------------------
\* TextHandler
\* ------------------------------------------------------------------------
RECURSIVE splitModule(_, _, _)
\* the loop of TextHandler.WithAttrs: the module attributes extend the module
\* name, the others are kept
splitModule(module, good, attrs) ==
    IF attrs = <<>> THEN [module |-> module, goodAttrs |-> good]
    ELSE LET a == Head(attrs)
         IN IF a.Key = ModuleKey /\ a.Value.kind = "String"
            THEN splitModule(IF module = <<>> THEN a.Value.str
                             ELSE module \o <<".">> \o a.Value.str,
                             good, Tail(attrs))
            ELSE splitModule(module, Append(good, a), Tail(attrs))

\* slog.Record
Record(time, level, msg, attrs) ==
    [Time |-> time, Level |-> level, Message |-> msg, Attrs |-> attrs]

\* ------------------------------------------------------------------------
\* Inputs
\* ------------------------------------------------------------------------
mHi == <<"h", "i">>
vAB == <<"a", " ", "b">>
vMod == <<"m">>

aRidX == Attr(kRid, StringValue(vX))
aRidY == Attr(kRid, StringValue(vY))
aRidEmpty == Attr(kRid, StringValue(EmptyStr))
aSidZ == Attr(kSid, StringValue(vZ))
aSid7 == Attr(kSid, Int64Value(7))
aK == Attr(kK, StringValue(vX))
aErr == Attr(kErr, StringValue(vAB))
aEmptyGroup == Attr(kEg, GroupValue(<<>>))
aGroupRid == Attr(kGrp, GroupValue(<<aRidY, aErr>>))
aGroupK == Attr(kGrp, GroupValue(<<aK>>))
aModule == Attr(ModuleKey, StringValue(vMod))
\* a value of two lines, the first of which holds a quote
vLines == <<"\"", "\n", "y">>
aLines == Attr(kErr, StringValue(vLines))

HandlerOptions == {[ReplaceAttr |-> rep, AddSource |-> FALSE] : rep \in {NoHook, DropK}}

OptionLists ==
    { <<>>,
      <<Option("WithContextKey", <<kRid, kSid>>, 0)>>,
      <<Option("WithImportantKeys", <<kK>>, 0),
        Option("WithContextKey", <<kRid>>, 0),
        Option("WithCriticalKeys", <<kErr>>, 0),
        Option("WithContextKey", <<kSid, kRid>>, 0),
        Option("WithImportantKeys", <<kErr>>, 0)>> }

\* the lists given to WithAttrs
BindLists ==
    { <<>>,
      <<aEmptyGroup>>,
      <<aRidX, aK>>,
      <<aRidEmpty, aErr>>,
      <<aModule, aSidZ, aEmptyGroup, aRidY>> }

\* the names given to WithGroup
GroupNames == {gA}

\* the attribute lists of the records
AttrLists ==
    { <<>>,
      <<aSid7, aRidX, aErr>>,
      <<aGroupRid>>,
      <<aEmptyGroup, aErr>>,
      <<aGroupK, aErr>>,
      <<aRidY>> }

Records == {Record(ZeroTime, LevelInfo, mHi, as) : as \in AttrLists}

\* the times of the records that carry one: 10:00:00.250, 10:30 and 12:10 of
\* 5 March 2024, and 13:00 of the next day
tMorning == Time(1709632800, 250)
tHalfPast == Time(1709634600, 0)
tNoon == Time(1709640600, 0)
tNextDay == Time(1709730000, 0)

Times == {tMorning, tHalfPast, tNoon, tNextDay}

TimeRecords == {Record(t, LevelInfo, mHi, <<>>) : t \in Times}

\* the inputs of the runs with two goroutines
ConcBindLists == {<<aK>>}
ConcRecords == {Record(ZeroTime, LevelInfo, mHi, <<>>),
                Record(ZeroTime, LevelError, mHi, <<aLines>>)}

\* ------------------------------------------------------------------------
\* State
\* ------------------------------------------------------------------------
VARIABLES
    chs,        \* the commonHandler objects, in the order they were made
    handlers,   \* the TextHandler values: ch, the commonHandler it points to;
                \* module; parent, the handler it was derived from; hist, the
                \* calls that made it from the first handler; and for the
                \* first handler options, the options New has applied
    mu,         \* the mutexes: the goroutine holding each, 0 when it is free
    sink,       \* the Write calls the sink is serving: the caller and the bytes
    bufs,       \* the Buffer objects: what each holds
    procs       \* the goroutines: where each is in Handle, and the call's state:
                \* buf, the Buffer the line is rendered in; bb, the scratch
                \* Buffer that writeEscapedForOutput freed and still writes to;
                \* todo, what a render that stopped there has yet to write;
                \* ret, what the goroutine's last Handle call returned

vars == <<chs, handlers, mu, sink, bufs, procs>>

NoRecord == Record(ZeroTime, LevelInfo, <<>>, <<>>)

\* a goroutine that is not inside Handle
IdleProc == [pc |-> "idle", h |-> 0, r |-> NoRecord, loaded |-> 0, buf |-> 0, bb |-> 0,
             todo |-> <<>>, nwrites |-> 0, err |-> "nil", ret |-> "none"]

Goroutines == {1, 2}

\* The Buffer objects.  The pool makes a new Buffer when it holds none; a
\* goroutine refers to two Buffers at most, so this many stand for all.
Buffers == 1..(Cardinality(Goroutines) + Cardinality(Goroutines))

\* the Buffers that are the line buffer of a call
InUse == {procs[q].buf : q \in Goroutines} \ {0}

\* the Buffers that a goroutine other than p has freed and still writes to
Stale(p) == {procs[q].bb : q \in Goroutines \ {p}} \ {0}

\* bufPool: the Buffers that lie in the pool
bufPool == Buffers \ InUse

\* bufPool.Get by goroutine p, from the Buffers of pool: any of them.  Those
\* that no goroutine refers to are alike, and the least stands for them.
Get(pool, p) ==
    LET unseen == pool \ Stale(p)
    IN (pool \cap Stale(p)) \cup {x \in unseen : \A y \in unseen : x <= y}

\* the place of the first chunk of line that writeEscapedForOutput copied from
\* its scratch Buffer; 0 when line has none
FirstEscaped(line) ==
    LET at == {i \in 1..Len(line) : line[i].tk = "escaped"}
    IN IF at = {} THEN 0 ELSE CHOOSE i \in at : \A j \in at : i <= j

InitWith(opts, options) ==
    /\ chs = <<New(opts, options)>>
    /\ handlers = <<[ch |-> 1, module |-> <<>>, parent |-> 0, hist |-> <<>>,
                      options |-> options]>>
    /\ mu = [m \in 1..(MaxHandlers + 1) |-> 0]
    /\ sink = {}
    /\ bufs = [b \in Buffers |-> <<>>]
    /\ procs = [p \in Goroutines |-> IdleProc]

Init == \E opts \in HandlerOptions, options \in OptionLists : InitWith(opts, options)

HistOp(op, name, attrs) == [op |-> op, name |-> name, attrs |-> attrs]

\* a view after elements from + 1 to upto of its array were written: they
\* are those of src
Overwritten(view, from, upto, src) ==
    [k \in 1..Len(view) |-> IF from < k /\ k <= upto THEN src[k] ELSE view[k]]

Min(a, b) == IF a < b THEN a ELSE b

\* What commonHandler g holds once h2 was made from a clone of h: the appends
\* that found room wrote into the arrays of the clone, and the context
\* values were put into the map of the clone.  g sees what was written where
\* its own views and its own map lie.
Seen(g, h, h2) ==
    LET c == clone(h).mem
    IN [g EXCEPT
          !.preformattedAttrs =
              IF c.pfa.arr # 0 /\ g.mem.pfa.arr = c.pfa.arr
              THEN Overwritten(@, Len(h.preformattedAttrs),
                               Min(c.pfa.cap, Len(h2.preformattedAttrs)),
                               h2.preformattedAttrs)
              ELSE @,
          !.groups =
              IF c.groups.arr # 0 /\ g.mem.groups.arr = c.groups.arr
              THEN Overwritten(@, Len(h.groups), Min(c.groups.cap, Len(h2.groups)),
                               h2.groups)
              ELSE @,
          !.contextValues =
              IF ~h2.mem.cv.fresh /\ h2.mem.cv.id # 0 /\ g.mem.cv.id = h2.mem.cv.id
              THEN h2.contextValues
              ELSE @]

\* h2 with the array and the map it allocated named after its place id
Placed(h2, id) ==
    [h2 EXCEPT !.mem.pfa = IF @.fresh THEN [@ EXCEPT !.arr = id, !.fresh = FALSE] ELSE @,
               !.mem.groups = IF @.fresh THEN [@ EXCEPT !.arr = id, !.fresh = FALSE] ELSE @,
               !.mem.cv = IF @.fresh THEN [id |-> id, fresh |-> FALSE] ELSE @]

\* the commonHandlers once h2, made from a clone of the one at place c, is
\* kept by a new handler
Stored(all, c, h2) ==
    Append([j \in 1..Len(all) |-> Seen(all[j], all[c], h2)], Placed(h2, Len(all) + 1))

\* goroutine p calls TextHandler.WithAttrs on handler i
WithAttrs(p, i, attrs) ==
    /\ procs[p].pc = "idle"
    /\ LET th == handlers[i]
           sp == splitModule(th.module, <<>>, attrs)
           res == withAttrs(chs[th.ch], sp.goodAttrs)
           id == IF res.same THEN th.ch ELSE Len(chs) + 1
       IN /\ chs' = IF res.same THEN chs ELSE Stored(chs, th.ch, res.h)
          /\ handlers' = Append(handlers,
                                [ch |-> id, module |-> sp.module, parent |-> i,
                                 hist |-> Append(th.hist,
                                                 HistOp("WithAttrs", <<>>, attrs))])
    /\ UNCHANGED <<mu, sink, bufs, procs>>

\* goroutine p calls TextHandler.WithGroup on handler i
WithGroup(p, i, name) ==
    /\ procs[p].pc = "idle"
    /\ LET th == handlers[i]
       IN /\ chs' = Stored(chs, th.ch, withGroup(chs[th.ch], name))
          /\ handlers' = Append(handlers,
                                [ch |-> Len(chs) + 1, module |-> th.module, parent |-> i,
                                 hist |-> Append(th.hist,
                                                 HistOp("WithGroup", name, <<>>))])
    /\ UNCHANGED <<mu, sink, bufs, procs>>

\* what the sink's Write may return
WriteResults == {"nil", "EIO"}

\* a Handle that keeps the context values of the record in the handler
HandleFormatCaches(p, i, r) ==
    /\ procs[p].pc = "idle"
    /\ LET th == handlers[i]
           h == chs[th.ch]
       IN \E res \in {handle(h, r, th.module, h.lastTime)}, b \in Get(bufPool, p) :
             LET k == FirstEscaped(res.buf)
                 call == [pc |-> "lock", h |-> i, r |-> r, loaded |-> h.lastTime,
                          buf |-> b, bb |-> 0, todo |-> <<>>, nwrites |-> 0,
                          err |-> "nil", ret |-> "none"]
             IN /\ chs' = [chs EXCEPT ![th.ch].lastTime = res.lastTime,
                                    ![th.ch].contextValues =
                                        recordValuesInto(@, h, r.Attrs)]
                /\ IF k = 0
                   THEN /\ bufs' = [bufs EXCEPT ![b] = res.buf]
                        /\ procs' = [procs EXCEPT ![p] = call]
                   ELSE \E x \in Get(bufPool \ {b}, p) :
                           /\ bufs' = [bufs EXCEPT ![b] = SubSeq(res.buf, 1, k - 1),
                                                   ![x] = <<>>]
                           /\ procs' = [procs EXCEPT
                                           ![p] = [call EXCEPT
                                                     !.pc = "escape", !.bb = x,
                                                     !.todo = SubSeq(res.buf, k,
                                                                     Len(res.buf))]]
    /\ UNCHANGED <<handlers, mu, sink>>

\* Goroutine p calls TextHandler.Handle on handler i: handle up to the line
\* that takes the lock.  NewBuffer hands out an empty Buffer of the pool, the
\* record is rendered into it and lastTime is loaded and stored.  When the
\* render has a line to escape it stops in writeEscapedForOutput, where the
\* scratch Buffer was taken from the pool, reset and freed.
HandleFormat(p, i, r) ==
    /\ procs[p].pc = "idle"
    /\ LET th == handlers[i]
           h == chs[th.ch]
       IN \E res \in {handle(h, r, th.module, h.lastTime)}, b \in Get(bufPool, p) :
             LET k == FirstEscaped(res.buf)
                 call == [pc |-> "lock", h |-> i, r |-> r, loaded |-> h.lastTime,
                          buf |-> b, bb |-> 0, todo |-> <<>>, nwrites |-> 0,
                          err |-> "nil", ret |-> "none"]
             IN /\ chs' = [chs EXCEPT ![th.ch].lastTime = res.lastTime]
                /\ IF k = 0
                   THEN /\ bufs' = [bufs EXCEPT ![b] = res.buf]
                        /\ procs' = [procs EXCEPT ![p] = call]
                   ELSE \E x \in Get(bufPool \ {b}, p) :
                           /\ bufs' = [bufs EXCEPT ![b] = SubSeq(res.buf, 1, k - 1),
                                                   ![x] = <<>>]
                           /\ procs' = [procs EXCEPT
                                           ![p] = [call EXCEPT
                                                     !.pc = "escape", !.bb = x,
                                                     !.todo = SubSeq(res.buf, k,
                                                                     Len(res.buf))]]
    /\ UNCHANGED <<handlers, mu, sink>>

\* writeEscapedForOutput goes on after bb.Free(): the escaped text is written
\* to the scratch Buffer, what the scratch Buffer then holds is appended to
\* the line, and the render runs to the line that takes the lock.  A scratch
\* Buffer that no goroutine refers to any more is left empty: NewBuffer and
\* Reset empty it before it is next used.
HandleEscape(p) ==
    /\ procs[p].pc = "escape"
    /\ LET b == procs[p].buf
           x == procs[p].bb
           bb == Append(bufs[x], Head(procs[p].todo))
       IN bufs' = [bufs EXCEPT ![x] = IF x \in InUse \cup Stale(p) THEN bb ELSE <<>>,
                               ![b] = @ \o bb \o Tail(procs[p].todo)]
    /\ procs' = [procs EXCEPT ![p].pc = "lock", ![p].bb = 0, ![p].todo = <<>>]
    /\ UNCHANGED <<chs, handlers, mu, sink>>

\* h.mu.Lock()
HandleLock(p) ==
    /\ procs[p].pc = "lock"
    /\ LET m == chs[handlers[procs[p].h].ch].mu
       IN /\ mu[m] = 0
          /\ mu' = [mu EXCEPT ![m] = p]
    /\ procs' = [procs EXCEPT ![p].pc = "write"]
    /\ UNCHANGED <<chs, handlers, sink, bufs>>

\* h.w.Write(*state.buf) is called
HandleWrite(p) ==
    /\ procs[p].pc = "write"
    /\ sink' = sink \cup {[by |-> p, bytes |-> bufs[procs[p].buf]]}
    /\ procs' = [procs EXCEPT ![p].pc = "written", ![p].nwrites = @ + 1]
    /\ UNCHANGED <<chs, handlers, mu, bufs>>

\* Write returns err
HandleWritten(p, err) ==
    /\ procs[p].pc = "written"
    /\ sink' = {w \in sink : w.by # p}
    /\ procs' = [procs EXCEPT ![p].pc = "unlock", ![p].err = err]
    /\ UNCHANGED <<chs, handlers, mu, bufs>>

\* a return that drops the error of Write
HandleReturnsNil(p) ==
    /\ procs[p].pc = "unlock"
    /\ LET m == chs[handlers[procs[p].h].ch].mu
       IN mu' = [mu EXCEPT ![m] = 0]
    /\ bufs' = [bufs EXCEPT ![procs[p].buf] = <<>>]
    /\ procs' = [procs EXCEPT ![p] = [IdleProc EXCEPT !.ret = "nil"]]
    /\ UNCHANGED <<chs, handlers, sink>>

\* the deferred Unlock and free run and handle returns err: the line buffer
\* is emptied and goes back to the pool
HandleReturn(p) ==
    /\ procs[p].pc = "unlock"
    /\ LET m == chs[handlers[procs[p].h].ch].mu
       IN mu' = [mu EXCEPT ![m] = 0]
    /\ bufs' = [bufs EXCEPT ![procs[p].buf] = <<>>]
    /\ procs' = [procs EXCEPT ![p] = [IdleProc EXCEPT !.ret = procs[p].err]]
    /\ UNCHANGED <<chs, handlers, sink>>

\* the steps of goroutine p, for the inputs given and at most n handlers
Step(p, binds, names, records, n) ==
    \/ \E i \in 1..Len(handlers), attrs \in binds :
          Len(handlers) < n /\ WithAttrs(p, i, attrs)
    \/ \E i \in 1..Len(handlers), name \in names :
          Len(handlers) < n /\ WithGroup(p, i, name)
    \/ \E i \in 1..Len(handlers), r \in records : HandleFormat(p, i, r)
    \/ HandleLock(p)
    \/ HandleWrite(p)
    \/ \E err \in WriteResults : HandleWritten(p, err)
    \/ HandleReturn(p)

\* one goroutine makes every call
Next == Step(1, BindLists, GroupNames, Records, MaxHandlers)

Spec == Init /\ [][Next]_vars

\* one goroutine logs records that carry a time
InitTime == \E opts \in HandlerOptions : InitWith(opts, <<>>)

NextTime == Step(1, ConcBindLists, GroupNames, TimeRecords, MaxHandlers)

SpecTime == InitTime /\ [][NextTime]_vars

\* two goroutines derive handlers and log at the same time
InitConc == InitWith([ReplaceAttr |-> NoHook, AddSource |-> FALSE], <<>>)

NextConc ==
    \E p \in Goroutines : \/ Step(p, ConcBindLists, GroupNames, ConcRecords, MaxConcHandlers)
                          \/ HandleEscape(p)

SpecConc == InitConc /\ [][NextConc]_vars

\* the inputs of the runs that look at the order of a line: one context key,
\* bound attributes, a module name, and records that carry a time
OrderBindLists == {<<aK>>, <<aErr, aModule>>}
OrderRecords ==
    {Record(tMorning, LevelInfo, mHi, as) : as \in {<<>>, <<aSid7, aRidX>>, <<aGroupRid, aSid7>>}}

InitOrder ==
    \E opts \in HandlerOptions :
        InitWith(opts, <<Option("WithContextKey", <<kRid>>, 0)>>)

NextOrder == Step(1, OrderBindLists, GroupNames, OrderRecords, MaxHandlers)

SpecOrder == InitOrder /\ [][NextOrder]_vars

\* the inputs of the runs with values that fail: each failing value has a key
\* of its own, in a record, inside a group and in a list given to WithAttrs
kFail == <<"f">>
kPanic == <<"p">>
kNilp == <<"n">>
kOk == <<"o">>
AnyValue(any) == Value("Any", <<>>, 0, NoTime, any, <<>>)
aFails == Attr(kFail, AnyValue("marshalErr"))
aPanics == Attr(kPanic, AnyValue("marshalPanic"))
aNilp == Attr(kNilp, AnyValue("nilMarshaler"))
aMarshals == Attr(kOk, AnyValue("marshals"))
aGroupFault == Attr(kGrp, GroupValue(<<aFails, aK>>))

FaultBindLists == {<<aPanics>>, <<aK, aNilp>>}
FaultRecords ==
    {Record(ZeroTime, LevelInfo, mHi, as) :
        as \in {<<>>, <<aFails, aPanics, aNilp, aSid7>>, <<aGroupFault, aSid7>>,
                <<aMarshals, aK>>}}

InitFault == \E opts \in HandlerOptions : InitWith(opts, <<>>)

NextFault == Step(1, FaultBindLists, GroupNames, FaultRecords, MaxHandlers)

SpecFault == InitFault /\ [][NextFault]_vars

\* the inputs of the runs that look at what derived handlers share: two
\* context keys, lists that bind one of them each, two group names, one
\* record, and room for two handlers derived from a derived one
MaxAliasHandlers == MaxHandlers + 1
gB == <<"b">>
AliasGroupNames == {gA, gB}
AliasBindLists == {<<aRidX, aK>>, <<aSidZ, aErr>>}
AliasRecords == {Record(ZeroTime, LevelInfo, mHi, <<aSid7>>)}

InitAlias ==
    InitWith([ReplaceAttr |-> NoHook, AddSource |-> FALSE],
             <<Option("WithContextKey", <<kRid, kSid>>, 0)>>)

NextAlias == Step(1, AliasBindLists, AliasGroupNames, AliasRecords, MaxAliasHandlers)

SpecAlias == InitAlias /\ [][NextAlias]_vars

\* The runs that look at New: the options are applied one by one, as the
\* loop of New does, and the handler is used after the last.
MaxOptions == 3

OptionChoices ==
    { Option("WithImportantKeys", <<kK>>, 0),
      Option("WithImportantKeys", <<kErr, kSid>>, 0),
      Option("WithCriticalKeys", <<kErr>>, 0),
      Option("WithCriticalKeys", <<kK>>, 0),
      Option("WithContextKey", <<kRid>>, 0),
      Option("WithContextKey", <<kSid, kRid>>, 0),
      Option("WithContextKey", <<>>, 0) }

OptionInputs == UNION {[1..n -> OptionChoices] : n \in 0..MaxOptions}

OptionsBindLists == {<<aK>>}
OptionsRecords == {Record(ZeroTime, LevelInfo, mHi, <<aErr, aRidX>>)}
FewHandlers == 2

\* New has made the commonHandler and is about to apply the first option
InitOptions ==
    \E options \in OptionInputs :
        /\ chs = <<New([ReplaceAttr |-> NoHook, AddSource |-> FALSE], <<>>)>>
        /\ handlers = <<[ch |-> 1, module |-> <<>>, parent |-> 0, hist |-> <<>>,
                          options |-> <<>>]>>
        /\ mu = [m \in 1..(MaxHandlers + 1) |-> 0]
        /\ sink = {}
        /\ bufs = [b \in Buffers |-> <<>>]
        /\ procs = [p \in Goroutines |->
                       IF p = 1 THEN [IdleProc EXCEPT !.pc = "new", !.todo = options]
                       ELSE IdleProc]

\* one turn of the loop of New: the next option is applied to the handler
NewOption(p) ==
    /\ procs[p].pc = "new"
    /\ procs[p].todo # <<>>
    /\ chs' = [chs EXCEPT ![1] = ApplyOption(@, Head(procs[p].todo))]
    /\ handlers' = [handlers EXCEPT ![1].options = Append(@, Head(procs[p].todo))]
    /\ procs' = [procs EXCEPT ![p].todo = Tail(@)]
    /\ UNCHANGED <<mu, sink, bufs>>

\* New returns the handler
NewReturn(p) ==
    /\ procs[p].pc = "new"
    /\ procs[p].todo = <<>>
    /\ procs' = [procs EXCEPT ![p].pc = "idle"]
    /\ UNCHANGED <<chs, handlers, mu, sink, bufs>>

NextOptions ==
    \/ NewOption(1)
    \/ NewReturn(1)
    \/ Step(1, OptionsBindLists, GroupNames, OptionsRecords, FewHandlers)

SpecOptions == InitOptions /\ [][NextOptions]_vars

\* the inputs of the runs that wrap: New is given WithTerminalWidth, with 0
\* for no wrapping or with WrapWidth, which the level, the message, the marker
\* and one short attribute fill to the last column
WrapWidth == 18
WrapWidths == {0, WrapWidth}

kMl == <<"m", "l">>
\* a value of two lines, the first with a space in it
vBlock == <<"a", " ", "b", "\n", "y">>
aBlock == Attr(kMl, StringValue(vBlock))

WrapBindLists == {<<aK>>, <<aBlock>>}
WrapRecords ==
    {Record(ZeroTime, LevelInfo, mHi, as) :
        as \in {<<aK>>, <<aK, aErr, aSid7>>, <<aBlock, aK>>, <<aGroupK, aBlock>>}}

InitWrap ==
    \E opts \in HandlerOptions, width \in WrapWidths :
        InitWith(opts, <<Option("WithTerminalWidth", <<>>, width)>>)

NextWrap == Step(1, WrapBindLists, GroupNames, WrapRecords, MaxHandlers)

SpecWrap == InitWrap /\ [][NextWrap]_vars

\* the inputs of the runs that look at single-line strings: every string of
\* at most MaxStrLen characters out of a letter, the space, the equals sign,
\* the quote, the backslash, the tab, the delete character and the no-break
\* space, as the value of the one attribute of a record
MaxStrLen == 2
StringChars == {"a", " ", "=", "\"", "\\", "\t", DEL, NBSP}
StringInputs == UNION {[1..n -> StringChars] : n \in 0..MaxStrLen}
StringRecords ==
    {Record(ZeroTime, LevelInfo, mHi, <<Attr(kOk, StringValue(str))>>) : str \in StringInputs}

InitStrings == \E opts \in HandlerOptions : InitWith(opts, <<>>)

NextStrings == Step(1, OptionsBindLists, GroupNames, StringRecords, FewHandlers)

SpecStrings == InitStrings /\ [][NextStrings]_vars

\* The runs that look at the context section and at the styles of the keys:
\* New is given options that name the context keys twice and style k and err
InitKeys ==
    \E opts \in HandlerOptions :
        InitWith(opts, <<Option("WithImportantKeys", <<kK>>, 0),
                         Option("WithContextKey", <<kRid>>, 0),
                         Option("WithCriticalKeys", <<kErr>>, 0),
                         Option("WithContextKey", <<kSid, kRid>>, 0),
                         Option("WithImportantKeys", <<kErr>>, 0)>>)

SpecKeys == InitKeys /\ [][Next]_vars

\* The runs that look at the lists that are bound: New is given the context
\* keys rid and sid
InitBind ==
    \E opts \in HandlerOptions :
        InitWith(opts, <<Option("WithContextKey", <<kRid, kSid>>, 0)>>)

SpecBind == InitBind /\ [][Next]_vars

\* The runs that look at WithGroup and at what a WithAttrs call after it
\* keeps: two group names, lists that are rendered in part or not at all, and
\* records with no attribute, with one the hook drops and with a group
GroupBindLists ==
    { <<aRidX, aK>>,
      <<aRidY>>,
      <<aRidEmpty, aErr>>,
      <<aGroupK, aErr>>,
      <<aEmptyGroup, aRidY>> }
GroupRecords ==
    {Record(ZeroTime, LevelInfo, mHi, as) : as \in {<<>>, <<aK>>, <<aGroupK, aErr>>}}

InitGroups ==
    \E opts \in HandlerOptions :
        InitWith(opts, <<Option("WithContextKey", <<kRid, kSid>>, 0)>>)

NextGroups == Step(1, GroupBindLists, AliasGroupNames, GroupRecords, MaxHandlers)

SpecGroups == InitGroups /\ [][NextGroups]_vars

\* the inputs of the runs that handle a record more than once: two records
\* with times of the same day more than an hour apart, on handlers that hold
\* bound bytes, a cached context value or an open group
TwiceBindLists == {<<aRidX, aK>>}
TwiceRecords ==
    {Record(tMorning, LevelInfo, mHi, <<aRidY, aErr>>), Record(tNoon, LevelError, mHi, <<aK>>)}

InitTwice ==
    \E opts \in HandlerOptions :
        InitWith(opts, <<Option("WithContextKey", <<kRid>>, 0)>>)

NextTwice == Step(1, TwiceBindLists, GroupNames, TwiceRecords, MaxHandlers)

SpecTwice == InitTwice /\ [][NextTwice]_vars

\* the inputs of the runs that bind a context key more than once: lists with
\* a text, another text and the empty text for rid
CacheBindLists == {<<aRidX, aK>>, <<aRidY>>, <<aRidEmpty, aErr>>}
CacheRecords == {Record(ZeroTime, LevelInfo, mHi, <<aSid7>>)}

NextCache == Step(1, CacheBindLists, GroupNames, CacheRecords, MaxHandlers)

SpecCache == InitBind /\ [][NextCache]_vars

\* ------------------------------------------------------------------------
\* Properties
\* ------------------------------------------------------------------------
\* the commonHandler that goroutine p is logging through
HandlerOf(p) == chs[handlers[procs[p].h].ch]

\* what the line buffer of goroutine p's call holds
BufOf(p) == bufs[procs[p].buf]

\* the line that the call of goroutine p renders
LineOf(p) ==
    handle(HandlerOf(p), procs[p].r, handlers[procs[p].h].module, procs[p].loaded).buf

\* the goroutines that are inside Handle
InHandle == {p \in Goroutines : procs[p].pc # "idle"}

\* the goroutines whose line is with the sink: Write was called and has not
\* returned
Writing == {p \in Goroutines : procs[p].pc = "written"}

\* C1: for any interleaving of Handle calls on a handler and the handlers
\* derived from it, a call issues exactly one Write, the Write carries the whole
\* line, rendered before the lock was taken in a buffer that no other call
\* refers to, the Write is made by the holder of the one lock the lineage
\* shares, and no two Writes overlap.
C1_OneWriteUnderSharedLock ==
    /\ \A c \in 1..Len(chs) : chs[c].mu = chs[1].mu
    /\ Cardinality(sink) <= 1
    /\ \A w \in sink : /\ mu[HandlerOf(w.by).mu] = w.by
                       /\ procs[w.by].pc = "written"
                       /\ w.bytes = LineOf(w.by)
                       /\ w.bytes[Len(w.bytes)].tk = "newline"
    /\ \A p \in InHandle :
          /\ \A q \in Goroutines \ {p} : procs[p].buf \notin {procs[q].buf, procs[q].bb}
          /\ procs[p].pc \in {"lock", "write", "written", "unlock"} => BufOf(p) = LineOf(p)
          /\ procs[p].nwrites = (IF procs[p].pc \in {"written", "unlock"} THEN 1 ELSE 0)
          /\ procs[p].pc = "written" => \E w \in sink : w.by = p

\* the places of the chunks of a line that were written as tk
Places(line, tk) == {i \in 1..Len(line) : line[i].tk = tk}

\* the places of the keys of a line that carry no group prefix
TopLevelKeys(line) ==
    {i \in Places(line, "key") : i = 1 \/ line[i - 1].tk # "prefix"}

\* the places where a line shows the message: written bare, or as the
\* attribute named msg when a hook is configured
MessagePlaces(line) ==
    Places(line, "msg") \cup {i \in TopLevelKeys(line) : line[i].txt = MessageKey}

\* the record's attribute named k, when it has one at its top level
HasAttr(r, k) == \E i \in 1..Len(r.Attrs) : r.Attrs[i].Key = k

AttrText(r, k) == Sprint(r.Attrs[CHOOSE i \in 1..Len(r.Attrs) : r.Attrs[i].Key = k].Value)

\* a context key has a value when a non-empty one was bound or the record has one
HasBound(h, k) == k \in DOMAIN h.contextValues /\ h.contextValues[k] # <<>>

Resolves(h, r, k) == HasBound(h, k) \/ HasAttr(r, k)

\* the values context key k has: the bound one and the record's
ValuesOf(h, r, k) ==
    {h.contextValues[x] : x \in {y \in {k} : HasBound(h, y)}}
        \cup {AttrText(r, x) : x \in {y \in {k} : HasAttr(r, y)}}

\* the configured context keys that have a value, in the configured order
ResolvedKeys(h, r) == SelectSeq(h.contextKeys, LAMBDA k : Resolves(h, r, k))

RECURSIVE SplitSpaces(_)
\* the words of a text, cut at every single space
SplitSpaces(text) ==
    IF \A i \in 1..Len(text) : text[i] # " " THEN <<text>>
    ELSE LET n == CHOOSE i \in 1..Len(text) :
                      text[i] = " " /\ \A j \in 1..(i - 1) : text[j] # " "
         IN <<SubSeq(text, 1, n - 1)>> \o SplitSpaces(SubSeq(text, n + 1, Len(text)))

\* the values a line shows in its context section, in the order shown
ShownParts(line) ==
    IF Places(line, "context") = {} THEN <<>>
    ELSE SplitSpaces(line[CHOOSE i \in Places(line, "context") : TRUE].txt)

\* those of them that log through a handler with context keys
ContextCalls == {p \in Writing : Len(HandlerOf(p).contextKeys) > 0}

PlaceOf(h, r, k) ==
    CHOOSE n \in 1..Len(ResolvedKeys(h, r)) : ResolvedKeys(h, r)[n] = k

\* the context keys of a call that the cache holds a value for, empty or
\* not, and that the record names as well
BoundAndLogged(p) ==
    {k \in DOMAIN HandlerOf(p).contextValues :
        /\ \E n \in 1..Len(HandlerOf(p).contextKeys) : HandlerOf(p).contextKeys[n] = k
        /\ HasAttr(procs[p].r, k)}

\* C3 as the specification states it: a context key that the cache holds a
\* value for and that the record names as well is shown with the cached value.
C3_BoundValueShown ==
    \A p \in ContextCalls : \A k \in BoundAndLogged(p) :
        LET h == HandlerOf(p)
            shown == ShownParts(BufOf(p))
        IN /\ Len(shown) = Len(ResolvedKeys(h, procs[p].r))
           /\ shown[PlaceOf(h, procs[p].r, k)] = h.contextValues[k]

\* C3, amended: a context key that the cache holds a value other than the
\* empty text for and that the record names as well is shown with the cached
\* value, whatever value the record gives it.
C3_NonEmptyBoundValueShown ==
    \A p \in ContextCalls : \A k \in BoundAndLogged(p) :
        LET h == HandlerOf(p)
            shown == ShownParts(BufOf(p))
        IN h.contextValues[k] # <<>> =>
              /\ Len(shown) = Len(ResolvedKeys(h, procs[p].r))
              /\ shown[PlaceOf(h, procs[p].r, k)] = h.contextValues[k]

\* a key bound to x is logged with the value y
C3_Witness ==
    \E p \in ContextCalls :
        /\ kRid \in BoundAndLogged(p)
        /\ HandlerOf(p).contextValues[kRid] = vX
        /\ AttrText(procs[p].r, kRid) = vY

\* a key bound to the empty text is logged with the value y, and y is shown
C3_EmptyBoundValue ==
    \E p \in ContextCalls :
        /\ kRid \in BoundAndLogged(p)
        /\ HandlerOf(p).contextValues[kRid] = <<>>
        /\ AttrText(procs[p].r, kRid) = vY
        /\ ShownParts(BufOf(p))[PlaceOf(HandlerOf(p), procs[p].r, kRid)] = vY

\* the context keys of a call that have no value
Missing(p) ==
    {k \in {HandlerOf(p).contextKeys[n] : n \in 1..Len(HandlerOf(p).contextKeys)} :
        /\ ~HasBound(HandlerOf(p), k)
        /\ ~HasAttr(procs[p].r, k)}

\* the text of a line's context section
ContextText(line) == line[CHOOSE i \in Places(line, "context") : TRUE].txt

\* C4: a context key with no bound value and no attribute on the record adds
\* nothing to the line: the context section holds one value for each of the
\* other keys, with single spaces between them and none before or after; and
\* when no key has a value there is no context section, and no space for it.
C4_MissingKeyLeavesNothing ==
    \A p \in ContextCalls :
        LET h == HandlerOf(p)
            line == BufOf(p)
            keys == ResolvedKeys(h, procs[p].r)
        IN Missing(p) # {} =>
              IF Len(keys) = 0
              THEN /\ Places(line, "context") = {}
                   /\ \A i \in Places(line, "space") : i > 1 /\ line[i - 1].tk = "module"
              ELSE /\ Cardinality(Places(line, "context")) = 1
                   /\ Len(ContextText(line)) =
                         Len(keys) - 1 + Len(Join([n \in 1..Len(keys) |->
                                                      ShownParts(line)[n]], <<>>))
                   /\ Len(ShownParts(line)) = Len(keys)
                   /\ \A n \in 1..Len(keys) :
                         /\ ShownParts(line)[n] # <<>>
                         /\ ShownParts(line)[n] \in ValuesOf(h, procs[p].r, keys[n])
                   /\ \A i \in Places(line, "context") :
                         line[i + 1].tk = "space" /\ line[i + 1].txt = <<" ">>

\* of two configured keys the first has no value and the second has one
C4_Witness ==
    \E p \in ContextCalls :
        /\ HandlerOf(p).contextKeys = <<kSid, kRid>>
        /\ Missing(p) = {kSid}
        /\ ContextText(BufOf(p)) = vY

\* no configured key has a value and the line has no context section
C4_WitnessNone ==
    \E p \in ContextCalls :
        /\ Len(ResolvedKeys(HandlerOf(p), procs[p].r)) = 0
        /\ Places(BufOf(p), "context") = {}

\* C5: every key a line shows is styled by its bare name, whatever group
\* prefix is written before it: as critical when the name is one of the
\* critical keys given to New, else as important when it is one of the
\* important keys, else as a plain key.  This holds for bound attributes and
\* record attributes alike, on the first handler and on every derived one.
C5_KeyStyledByBareName ==
    \A p \in Writing : \A i \in Places(BufOf(p), "key") :
        BufOf(p)[i].st =
            (IF BufOf(p)[i].txt \in chs[1].criticalKeys THEN criticalKeyColor
             ELSE IF BufOf(p)[i].txt \in chs[1].importantKeys THEN importantKeyColor
             ELSE faintBoldColor)

\* a derived handler that has the important key k bound renders err, which is
\* both critical and important, inside a group
C5_Witness ==
    \E p \in Writing :
        LET line == BufOf(p)
        IN /\ procs[p].h > 1
           /\ kErr \in chs[1].criticalKeys \cap chs[1].importantKeys
           /\ \E i \in Places(line, "key") \ TopLevelKeys(line) :
                 line[i].txt = kErr /\ line[i].st = criticalKeyColor
           /\ \E i \in Places(line, "key") :
                 line[i].txt = kK /\ line[i].st = importantKeyColor

\* the handler value that goroutine p is logging through
ValueOf(p) == handlers[procs[p].h]

\* the length the call's buffer has when the record's attributes are begun:
\* the pos of appendNonBuiltIns
AttrsPos(p) ==
    BufLen(appendPreformatted(handleBuiltIns(HandlerOf(p), procs[p].r, ValueOf(p).module,
                                             procs[p].loaded)).buf)

\* the places of the keys that a line shows for the record's attributes
RecordKeys(p) == {i \in Places(BufOf(p), "key") : i > AttrsPos(p)}

\* a key as a line shows it, with the prefix written before it
FullKey(line, i) ==
    (IF i > 1 /\ line[i - 1].tk = "prefix" THEN line[i - 1].txt ELSE <<>>) \o line[i].txt

\* the names given to the WithGroup calls of a history, in the order of the calls
RECURSIVE GroupsOf(_)
GroupsOf(hist) ==
    IF hist = <<>> THEN <<>>
    ELSE (IF Head(hist).op = "WithGroup" THEN <<Head(hist).name>> ELSE <<>>)
         \o GroupsOf(Tail(hist))

\* the names, each followed by a dot
RECURSIVE Dotted(_)
Dotted(names) ==
    IF names = <<>> THEN <<>> ELSE Head(names) \o <<".">> \o Dotted(Tail(names))

\* the keys of the attributes of a list that are no groups, each with the keys
\* of the groups around it and the given prefix before it
RECURSIVE DottedKeys(_, _)
DottedKeys(prefix, as) ==
    IF as = <<>> THEN {}
    ELSE (IF Head(as).Value.kind = "Group"
          THEN DottedKeys(prefix \o Head(as).Key \o <<".">>, Head(as).Value.group)
          ELSE {prefix \o Head(as).Key})
         \cup DottedKeys(prefix, Tail(as))

\* C6: every key that a line shows for an attribute of the record is the
\* attribute's key with, before it, the names of the WithGroup calls that made
\* the handler, in the order of the calls, and then the keys of the groups of
\* the record that hold the attribute, each followed by a dot.
C6_KeysCarryGroupPrefix ==
    \A p \in Writing : \A i \in RecordKeys(p) :
        FullKey(BufOf(p), i)
            \in DottedKeys(Dotted(GroupsOf(ValueOf(p).hist)), procs[p].r.Attrs)

\* after WithGroup(a) twice, the record's err is shown as a.a.err
C6_Nested ==
    \E p \in Writing :
        /\ GroupsOf(ValueOf(p).hist) = <<gA, gA>>
        /\ procs[p].r.Attrs = <<aEmptyGroup, aErr>>
        /\ \E i \in RecordKeys(p) :
              FullKey(BufOf(p), i) = gA \o <<".">> \o gA \o <<".">> \o kErr

\* the hook drops the only child of the group grp, and err, which follows the
\* group in the record, is shown as grp.err
C6_SiblingKeepsGroupName ==
    \E p \in Writing :
        /\ procs[p].r.Attrs = <<aGroupK, aErr>>
        /\ \E i \in RecordKeys(p) :
              FullKey(BufOf(p), i) = kGrp \o <<".">> \o kErr

\* the part of the line of goroutine p that follows the bound attributes
RecordSection(p) == SubSeq(BufOf(p), AttrsPos(p) + 1, Len(BufOf(p)))

\* a list of attributes without its groups of no children
WithoutEmptyGroups(as) == SelectSeq(as, LAMBDA a : ~isEmptyGroup(a.Value))

\* what follows the bound attributes in the line handle renders for h and r
SectionOf(h, r, module, loaded) ==
    LET line == handle(h, r, module, loaded).buf
        pos == BufLen(appendPreformatted(handleBuiltIns(h, r, module, loaded)).buf)
    IN SubSeq(line, pos + 1, Len(line))

\* the handler values that a WithAttrs call made
Bound == {j \in 1..Len(handlers) :
             /\ handlers[j].hist # <<>>
             /\ handlers[j].hist[Len(handlers[j].hist)].op = "WithAttrs"}

\* the list the WithAttrs call that made handler j was given
BoundList(j) == handlers[j].hist[Len(handlers[j].hist)].attrs

\* C7: a group of no children writes nothing and changes no key that is
\* written after it: a line shows for the record's attributes what it shows
\* for the record without such groups, no line shows the key of such a group,
\* and a WithAttrs call leaves the bound bytes that it leaves for the list
\* without such groups.
C7_EmptyGroupWritesNothing ==
    /\ \A p \in Writing :
          /\ RecordSection(p) =
                SectionOf(HandlerOf(p),
                          [procs[p].r EXCEPT !.Attrs = WithoutEmptyGroups(@)],
                          ValueOf(p).module, procs[p].loaded)
          /\ \A i \in 1..Len(BufOf(p)) :
                BufOf(p)[i].tk \in {"key", "prefix"} =>
                   BufOf(p)[i].txt \notin {kEg, kEg \o <<".">>}
    /\ \A j \in Bound :
          InHandle = {} =>
          LET parent == chs[handlers[handlers[j].parent].ch]
              list == splitModule(<<>>, <<>>, BoundList(j)).goodAttrs
          IN chs[handlers[j].ch].preformattedAttrs =
                withAttrs(parent, WithoutEmptyGroups(list)).h.preformattedAttrs

\* a record whose first attribute is a group of no children is rendered by a
\* handler that was bound a list starting with such a group, and err, which
\* follows the group in the record, is shown
C7_Witness ==
    \E p \in Writing :
        /\ procs[p].r.Attrs = <<aEmptyGroup, aErr>>
        /\ procs[p].h \in Bound
        /\ \E i \in 1..Len(BoundList(procs[p].h)) : isEmptyGroup(BoundList(procs[p].h)[i].Value)
        /\ Len(HandlerOf(p).preformattedAttrs) > 0
        /\ \E i \in RecordKeys(p) : BufOf(p)[i].txt = kErr

\* the handler values made by a WithAttrs call whose list held nothing but
\* groups of no children
BoundNothing == {j \in Bound : WithoutEmptyGroups(BoundList(j)) = <<>>}

\* C8: a WithAttrs call whose list holds nothing but groups of no children,
\* the empty list included, gives a handler over the commonHandler it was
\* called on, with the same module name, and so one that renders every record
\* as the handler it was called on does; this holds however many such calls
\* follow one another.
C8_EmptyBindReturnsSameState ==
    \A j \in BoundNothing :
        /\ handlers[j].ch = handlers[handlers[j].parent].ch
        /\ handlers[j].module = handlers[handlers[j].parent].module
        /\ InHandle = {} =>
              \A r \in Records :
                 handle(chs[handlers[j].ch], r, handlers[j].module, 0)
                    = handle(chs[handlers[handlers[j].parent].ch], r,
                             handlers[handlers[j].parent].module, 0)

\* a handler is bound the empty list, and the handler that gives is bound a
\* group of no children
C8_Witness ==
    \E j \in BoundNothing :
        /\ handlers[j].parent \in BoundNothing
        /\ BoundList(j) = <<aEmptyGroup>>
        /\ BoundList(handlers[j].parent) = <<>>
        /\ handlers[j].ch = handlers[1].ch

\* the keys, with the given prefix and the keys of the groups around them,
\* of the attributes of a list that lie inside a group and are named as one of
\* the given keys
RECURSIVE NestedKeys(_, _, _, _)
NestedKeys(keys, prefix, as, inGroup) ==
    IF as = <<>> THEN {}
    ELSE (IF Head(as).Value.kind = "Group"
          THEN NestedKeys(keys, prefix \o Head(as).Key \o <<".">>, Head(as).Value.group, TRUE)
          ELSE IF inGroup /\ Head(as).Key \in keys THEN {prefix \o Head(as).Key}
          ELSE {})
         \cup NestedKeys(keys, prefix, Tail(as), inGroup)

\* the context keys of the handler goroutine p logs through
ContextKeySet(p) ==
    {HandlerOf(p).contextKeys[n] : n \in 1..Len(HandlerOf(p).contextKeys)}

\* C9: an attribute of the record that lies inside a group and is named as a
\* configured context key is shown among the attributes, under its key with
\* the group's prefix, with a replace hook configured and without one.
C9_NestedContextKeyShown ==
    \A p \in ContextCalls :
        \A name \in NestedKeys(ContextKeySet(p), Dotted(GroupsOf(ValueOf(p).hist)),
                               procs[p].r.Attrs, FALSE) :
            \E i \in RecordKeys(p) : FullKey(BufOf(p), i) = name

\* with a hook configured, rid inside the group grp is shown as grp.rid
C9_ShownWithHook ==
    \E p \in ContextCalls :
        /\ HandlerOf(p).opts.ReplaceAttr # NoHook
        /\ procs[p].r.Attrs = <<aGroupRid>>
        /\ \E i \in RecordKeys(p) : FullKey(BufOf(p), i) = kGrp \o <<".">> \o kRid

\* without a hook, rid inside the group grp is not shown, and err beside it is
C9_DroppedWithoutHook ==
    \E p \in ContextCalls :
        /\ HandlerOf(p).opts.ReplaceAttr = NoHook
        /\ kRid \in ContextKeySet(p)
        /\ procs[p].r.Attrs = <<aGroupRid>>
        /\ \A i \in RecordKeys(p) : BufOf(p)[i].txt # kRid
        /\ \E i \in RecordKeys(p) : FullKey(BufOf(p), i) = kGrp \o <<".">> \o kErr

\* the calls whose line is with the sink and whose record carries a time
TimedCalls == {p \in Writing : ~IsZero(procs[p].r.Time)}

\* the day, counted from the epoch, that a second lies in
DayOf(sec) == sec \div SecondsPerDay

\* the record of goroutine p is the first its handler renders, or comes more
\* than an hour after the one before it, or on another day; loaded is the
\* time the handler had stored when the call began, 0 when it had stored none
WantsFullTime(p) ==
    \/ procs[p].loaded = 0
    \/ Sub(procs[p].r.Time, TimeUnix(procs[p].loaded)) > Hour
    \/ DayOf(procs[p].r.Time.sec) # DayOf(procs[p].loaded)

\* C10: a record with a time is rendered with the full format of the time
\* when it is the first record of the handler, or comes more than an hour
\* after the record rendered before it, or on another day, and with the
\* time-of-day format otherwise; and each such render leaves the record's time
\* as the stored one.
C10_FullTimeAfterGap ==
    \A p \in TimedCalls :
        /\ \E i \in Places(BufOf(p), "time") :
              BufOf(p)[i].txt = (IF WantsFullTime(p) THEN TimeFormat(procs[p].r.Time)
                                     ELSE MiniTimeFormat(procs[p].r.Time))
        /\ HandlerOf(p).lastTime = Unix(procs[p].r.Time)

\* the first record of a handler is rendered with the time of day alone
C10_FirstRecordCompact ==
    \E p \in TimedCalls :
        /\ procs[p].loaded = 0
        /\ procs[p].r.Time = tMorning
        /\ \E i \in Places(BufOf(p), "time") :
              BufOf(p)[i].txt = MiniTimeFormat(tMorning)

\* a record of the day after the one before it is rendered with the time of
\* day alone
C10_NextDayCompact ==
    \E p \in TimedCalls :
        /\ procs[p].loaded = Unix(tNoon)
        /\ procs[p].r.Time = tNextDay
        /\ \E i \in Places(BufOf(p), "time") :
              BufOf(p)[i].txt = MiniTimeFormat(tNextDay)

\* with a hook configured the time is rendered as the attribute named time and
\* nothing is stored
C10_HookStoresNothing ==
    \E p \in TimedCalls :
        /\ HandlerOf(p).opts.ReplaceAttr # NoHook
        /\ Places(BufOf(p), "time") = {}
        /\ \E i \in TopLevelKeys(BufOf(p)) : BufOf(p)[i].txt = TimeKey
        /\ HandlerOf(p).lastTime = 0

\* what the code does without a hook: the time of day alone for the first
\* record, for a record less than an hour after the stored time, and for a
\* record on another day of the year than the stored time; the full format
\* for a record an hour or more after the stored time on the same day
C10_AsCoded ==
    \A p \in TimedCalls :
        HandlerOf(p).opts.ReplaceAttr = NoHook =>
            /\ \E i \in Places(BufOf(p), "time") :
                  BufOf(p)[i].txt =
                     (IF /\ procs[p].loaded # 0
                         /\ Sub(procs[p].r.Time, TimeUnix(procs[p].loaded)) >= Hour
                         /\ DayOf(procs[p].r.Time.sec) = DayOf(procs[p].loaded)
                      THEN TimeFormat(procs[p].r.Time)
                      ELSE MiniTimeFormat(procs[p].r.Time))
            /\ HandlerOf(p).lastTime = Unix(procs[p].r.Time)

\* a record two hours after the one before it, on the same day, is rendered
\* with the full format
C10_SameDayFull ==
    \E p \in TimedCalls :
        /\ procs[p].loaded = Unix(tMorning)
        /\ procs[p].r.Time = tNoon
        /\ \E i \in Places(BufOf(p), "time") :
              BufOf(p)[i].txt = TimeFormat(tNoon)

C11_DerivedStartsFromZero ==
    \E p \in TimedCalls :
        /\ handlers[procs[p].h].ch # 1
        /\ procs[p].loaded = 0
        /\ chs[1].lastTime = Unix(tMorning)
        /\ procs[p].r.Time = tNoon

\* C12: the marker between the message and the attributes is written only
\* when an attribute, bound or of the record, is rendered after it: a line that
\* shows the marker shows a key after it.
C12_MarkerOnlyBeforeAttribute ==
    \A p \in Writing :
        \A m \in Places(BufOf(p), "marker") :
            \E i \in Places(BufOf(p), "key") : i > m

\* a handler with no bound bytes logs a record whose one attribute is a context
\* key: the line ends with the marker and the newline
C12_MarkerBeforeNothing ==
    \E p \in Writing :
        /\ HandlerOf(p).preformattedAttrs = <<>>
        /\ procs[p].r.Attrs = <<aRidY>>
        /\ Len(BufOf(p)) > 1
        /\ BufOf(p)[Len(BufOf(p)) - 1].tk = "marker"
        /\ BufOf(p)[Len(BufOf(p))].tk = "newline"

\* the marker is written before the attributes of a record
C12_MarkerBeforeAttribute ==
    \E p \in Writing :
        \E m \in Places(BufOf(p), "marker") :
            \E i \in RecordKeys(p) : i > m /\ BufOf(p)[i].txt = kErr

RECURSIVE LeafKeys(_)
\* the keys of the attributes of a list that are no groups, in the order of
\* the list, those inside a group in the group's place
LeafKeys(as) ==
    IF as = <<>> THEN <<>>
    ELSE (IF Head(as).Value.kind = "Group" THEN LeafKeys(Head(as).Value.group)
          ELSE <<Head(as).Key>>)
         \o LeafKeys(Tail(as))

RECURSIVE BoundKeys(_)
\* the keys given to the WithAttrs calls of a history, in the order given
BoundKeys(hist) ==
    IF hist = <<>> THEN <<>>
    ELSE (IF Head(hist).op = "WithAttrs" THEN LeafKeys(Head(hist).attrs) ELSE <<>>)
         \o BoundKeys(Tail(hist))

RECURSIVE IsSubSeq(_, _)
\* s is t with some of its members left out
IsSubSeq(s, t) ==
    IF s = <<>> THEN TRUE
    ELSE IF t = <<>> THEN FALSE
    ELSE IF Head(s) = Head(t) THEN IsSubSeq(Tail(s), Tail(t))
    ELSE IsSubSeq(s, Tail(t))

\* the place where a line shows the message
MessageAt(line) == CHOOSE i \in MessagePlaces(line) : TRUE

\* the places where a line shows the time of the record: written bare, or as
\* the attribute named time when a hook is configured
TimePlaces(line) ==
    Places(line, "time")
        \cup {i \in TopLevelKeys(line) : line[i].txt = TimeKey /\ i < MessageAt(line)}

RECURSIVE KeysFrom(_, _)
\* the keys a line shows from place i on, without their prefixes
KeysFrom(line, i) ==
    IF i > Len(line) THEN <<>>
    ELSE (IF line[i].tk = "key" THEN <<line[i].txt>> ELSE <<>>) \o KeysFrom(line, i + 1)

\* C13: a line shows, in this order, the time and the level, the context
\* values, the module name, the message, the bound attributes in the order
\* they were bound, the attributes of the record in the order of the record,
\* and the newline; no attribute of the record comes before a bound one.
C13_SectionsInOrder ==
    \A p \in Writing :
        LET line == BufOf(p)
            at(tk) == Places(line, tk)
        IN /\ Cardinality(MessagePlaces(line)) = 1
           /\ Cardinality(at("level")) = 1
           /\ ~IsZero(procs[p].r.Time) => TimePlaces(line) = {1}
           /\ \A t \in TimePlaces(line), l \in at("level") : t < l
           /\ \A l \in at("level"), c \in at("context") \cup at("module") : l < c
           /\ \A c \in at("context"), m \in at("module") : c < m
           /\ \A c \in at("context") \cup at("module") \cup at("level") :
                 c < MessageAt(line)
           /\ IsSubSeq(KeysFrom(line, MessageAt(line) + 1),
                       BoundKeys(ValueOf(p).hist) \o LeafKeys(procs[p].r.Attrs))
           /\ at("newline") = {Len(line)}

\* a line that shows every section: the time, the level, a context value, the
\* module name, the message, two bound attributes and one of the record
C13_Witness ==
    \E p \in Writing :
        LET line == BufOf(p)
        IN /\ TimePlaces(line) # {}
           /\ Places(line, "context") # {}
           /\ Places(line, "module") # {}
           /\ KeysFrom(line, MessageAt(line) + 1) = <<kK, kErr, kSid>>

\* a Handle call of goroutine p returns
Returns(p) == procs[p].pc = "unlock" /\ procs'[p].pc = "idle"

\* C14: a Handle call returns what the one Write it made returned, an error
\* or none; by then it made no second Write and has nothing with the sink, and
\* the lock is free, so that the next Handle call of the lineage can take it.
C14_WriteErrorReturned ==
    /\ [](\A p \in Goroutines :
             /\ procs[p].nwrites <= 1
             /\ procs[p].pc \in {"idle", "unlock"} => \A w \in sink : w.by # p
             /\ procs[p].pc = "idle" => \A m \in DOMAIN mu : mu[m] # p)
    /\ [][\A p \in Goroutines :
             Returns(p) => /\ procs[p].nwrites = 1
                           /\ procs'[p].ret = procs[p].err
                           /\ sink' = sink
                           /\ mu'[HandlerOf(p).mu] = 0]_vars

\* a Handle call returned the error of Write, and the lock is free
C14_Witness ==
    \E p \in Goroutines :
        /\ procs[p].pc = "idle"
        /\ procs[p].ret = "EIO"
        /\ \A m \in DOMAIN mu : mu[m] = 0
        /\ sink = {}

\* text t holds text u in one piece
HasInfix(t, u) ==
    \E i \in 0..(Len(t) - Len(u)) : SubSeq(t, i + 1, i + Len(u)) = u

\* the attributes of a list that a handler shows: the hook of the model drops
\* those named k
ShownKeys(h, keys) ==
    SelectSeq(keys, LAMBDA k : ~(h.opts.ReplaceAttr = DropK /\ k = kK))

\* s ends with t
IsSuffix(t, s) == Len(t) <= Len(s) /\ SubSeq(s, Len(s) - Len(t) + 1, Len(s)) = t

\* what a line shows for the value of the key at place i
ValueAt(line, i) ==
    IF i + 2 <= Len(line) /\ line[i + 2].tk = "value" THEN line[i + 2].txt ELSE <<>>

\* C15: a value whose MarshalText returns an error is shown as !ERROR: and
\* the message, one whose MarshalText panics as <nil> when it is a nil
\* pointer and else as a value that holds !PANIC: and the panic's message;
\* the key of the attribute, the attributes after it and the newline are
\* shown, and the line is the one Handle hands to Write.
C15_FaultContained ==
    \A p \in Writing : \A w \in {x \in sink : x.by = p} :
        LET line == w.bytes
        IN /\ line = LineOf(p)
           /\ IsSuffix(ShownKeys(HandlerOf(p), LeafKeys(procs[p].r.Attrs)),
                       KeysFrom(line, 1))
           /\ IsSubSeq(ShownKeys(HandlerOf(p), BoundKeys(ValueOf(p).hist)),
                       KeysFrom(line, 1))
           /\ Places(line, "newline") = {Len(line)}
           /\ \A i \in Places(line, "key") :
                 /\ line[i].txt = kFail => ValueAt(line, i) = tErrorMark \o tBad
                 /\ line[i].txt = kNilp => ValueAt(line, i) = tNil
                 /\ line[i].txt = kPanic => HasInfix(ValueAt(line, i), tPanicMark \o tBoom)

\* the line of a record with a value of each kind that fails and an attribute
\* after them is with the sink, written by a handler that has a failing value
\* bound
C15_Witness ==
    \E p \in Writing : \E w \in {x \in sink : x.by = p} :
        /\ procs[p].r.Attrs = <<aFails, aPanics, aNilp, aSid7>>
        /\ KeysFrom(w.bytes, MessageAt(w.bytes) + 1)
              = <<kPanic, kFail, kPanic, kNilp, kSid>>

\* what a commonHandler holds of the attributes and groups bound to it: the
\* bound bytes, the group list and how much of it the bytes have open, the
\* group prefix and the cached context values
Holds(h) ==
    <<h.preformattedAttrs, h.groups, h.nOpenGroups, h.groupPrefix, h.contextValues>>

RECURSIVE Derived(_, _, _)
\* the commonHandler that the calls of a history make from h, each working on
\* values of its own
Derived(h, module, hist) ==
    IF hist = <<>> THEN h
    ELSE IF Head(hist).op = "WithGroup"
    THEN Derived(withGroup(h, Head(hist).name), module, Tail(hist))
    ELSE LET sp == splitModule(module, <<>>, Head(hist).attrs)
         IN Derived(withAttrs(h, sp.goodAttrs).h, sp.module, Tail(hist))

\* C16: a WithAttrs or WithGroup call changes nothing that a handler made
\* before it holds: not the bound bytes, the group list, the group prefix or
\* the cached context values of the handler it is called on or of any other.
\* So what a handler holds, and the line it writes, is what the calls that
\* made it give, whatever was derived from its parent besides.
C16_DerivationLeavesOthersAlone ==
    /\ [](\A i \in 1..Len(handlers) :
             Holds(chs[handlers[i].ch]) = Holds(Derived(chs[1], <<>>, handlers[i].hist)))
    /\ [](\A p \in Writing : \A w \in {x \in sink : x.by = p} :
             w.bytes = handle(Derived(chs[1], <<>>, ValueOf(p).hist), procs[p].r,
                              ValueOf(p).module, procs[p].loaded).buf)
    /\ [][\A c \in 1..Len(chs) : Holds(chs'[c]) = Holds(chs[c])]_vars

\* two handlers were derived from one derived handler, which had bound bytes,
\* an open group or cached context values, and the first of the two writes a
\* line
C16_Witness ==
    \E i, j \in 1..Len(handlers) :
        /\ i < j
        /\ handlers[i].parent = handlers[j].parent
        /\ handlers[i].parent > 1
        /\ Len(chs[handlers[i].ch].preformattedAttrs)
              > Len(chs[handlers[handlers[i].parent].ch].preformattedAttrs)
        /\ Len(chs[handlers[j].ch].preformattedAttrs)
              > Len(chs[handlers[handlers[j].parent].ch].preformattedAttrs)
        /\ chs[handlers[j].ch].contextValues # chs[handlers[i].ch].contextValues
        /\ \E p \in Writing : procs[p].h = i

\* the keys of the options of one kind in a list
KeysGiven(options, kind) ==
    UNION {Range(options[i].keys) : i \in {j \in 1..Len(options) : options[j].opt = kind}}

\* the places of the context-keys options in a list
ContextOptions(options) == {i \in 1..Len(options) : options[i].opt = "WithContextKey"}

\* the list of the last context-keys option, none when there is no such option
LastContextKeys(options) ==
    IF ContextOptions(options) = {} THEN <<>>
    ELSE options[CHOOSE i \in ContextOptions(options) :
                    \A j \in ContextOptions(options) : j <= i].keys

\* New applies an option
AppliesOption == procs[1].pc = "new" /\ procs[1].todo # <<>> /\ procs'[1].pc = "new"

\* C17: New applies the options in the order of the call.  An important-keys
\* option adds its keys to the important set and a critical-keys option to the
\* critical set, and neither removes a key; a context-keys option replaces the
\* list of context keys.  So the important and the critical keys are those of
\* all the options of their kind, and the context keys are the list of the
\* last context-keys option.
C17_OptionsInCallOrder ==
    /\ [](LET options == handlers[1].options
          IN /\ chs[1].importantKeys = KeysGiven(options, "WithImportantKeys")
             /\ chs[1].criticalKeys = KeysGiven(options, "WithCriticalKeys")
             /\ chs[1].contextKeys = LastContextKeys(options))
    /\ [][AppliesOption =>
            LET o == Head(procs[1].todo)
            IN /\ handlers'[1].options = Append(handlers[1].options, o)
               /\ chs[1].importantKeys \subseteq chs'[1].importantKeys
               /\ chs[1].criticalKeys \subseteq chs'[1].criticalKeys
               /\ o.opt = "WithImportantKeys" => Range(o.keys) \subseteq chs'[1].importantKeys
               /\ o.opt = "WithCriticalKeys" => Range(o.keys) \subseteq chs'[1].criticalKeys
               /\ chs'[1].contextKeys = IF o.opt = "WithContextKey" THEN o.keys
                                        ELSE chs[1].contextKeys]_vars
    /\ [][procs[1].pc # "new" =>
            /\ chs'[1].contextKeys = chs[1].contextKeys
            /\ chs'[1].importantKeys = chs[1].importantKeys
            /\ chs'[1].criticalKeys = chs[1].criticalKeys]_vars

\* New was given two context-keys options with an important-keys option
\* between them and has returned, and the handler writes a line
C17_Witness ==
    /\ Len(handlers[1].options) = 3
    /\ handlers[1].options[1] = Option("WithContextKey", <<kSid, kRid>>, 0)
    /\ handlers[1].options[2].opt = "WithImportantKeys"
    /\ handlers[1].options[3] = Option("WithContextKey", <<kRid>>, 0)
    /\ chs[1].contextKeys = <<kRid>>
    /\ Writing # {}

\* the places where a line was wrapped: every newline but the one that ends
\* the line
Wraps(line) == Places(line, "newline") \ {Len(line)}

\* C18: with a wrap width set, every wrap of a line falls right before the
\* key of an attribute: the wrapped line starts with the indent of four
\* spaces, and what follows is the key, with its group prefix when it has
\* one, not a separator and not the value of the key before.  (A key and a
\* value are each one write of the model, so that no wrap falls inside one.)
C18_WrapBeforeKey ==
    \A p \in Writing :
        LET line == BufOf(p)
        IN HandlerOf(p).terminalWidth > 0 =>
              \A i \in Wraps(line) :
                 /\ line[i + 1].tk = "indent"
                 /\ line[i + 1].txt = Indent
                 /\ line[i + 2].tk \in {"prefix", "key"}

\* a line was wrapped before a key
C18_WrappedBeforeKey ==
    \E p \in Writing : \E i \in Wraps(BufOf(p)) :
        /\ BufOf(p)[i + 1].tk = "indent"
        /\ BufOf(p)[i + 2].tk = "key"

\* a line was wrapped between a key and its value
C18_WrappedBeforeValue ==
    \E p \in Writing : \E i \in Wraps(BufOf(p)) :
        /\ BufOf(p)[i - 1].tk = "kvsep"
        /\ BufOf(p)[i + 2].tk = "value"

RECURSIVE SplitLines(_)
\* the lines of a text; a newline that ends the text starts no line
SplitLines(text) ==
    IF text = <<>> THEN <<>>
    ELSE IF \A i \in 1..Len(text) : text[i] # "\n" THEN <<text>>
    ELSE LET n == CHOOSE i \in 1..Len(text) :
                      text[i] = "\n" /\ \A j \in 1..(i - 1) : text[j] # "\n"
         IN <<SubSeq(text, 1, n - 1)>> \o SplitLines(SubSeq(text, n + 1, Len(text)))

RECURSIVE BlockOf(_)
\* the block of a list of lines: for each line the indent with the
\* indicator, the line as it is, and a line break
BlockOf(lines) ==
    IF lines = <<>> THEN <<>>
    ELSE <<BlockIndent, Head(lines), <<"\n">> >> \o BlockOf(Tail(lines))

\* the texts a line writes from place i to place j
TextsOf(line, i, j) == [k \in 1..(j - i + 1) |-> line[i + k - 1].txt]

\* the keys a handler shows for a record: the bound ones and the record's
KeysShown(p) ==
    ShownKeys(HandlerOf(p), BoundKeys(ValueOf(p).hist) \o LeafKeys(procs[p].r.Attrs))

\* C19: a string value with a newline in it is shown as the key, a line
\* break, and each line of the value on a line of its own after the indent
\* with the indicator, the line unquoted; no part of the line is the quoted
\* value with the newline escaped.  That is so with a wrap width and without.
C19_MultiLineAsBlock ==
    \A p \in Writing :
        LET line == BufOf(p)
            block == <<<<":", " ">>, <<"\n">> >> \o BlockOf(SplitLines(vBlock))
        IN /\ \A i \in Places(line, "key") :
                 line[i].txt = kMl =>
                    /\ i + Len(block) <= Len(line)
                    /\ TextsOf(line, i + 1, i + Len(block)) = block
                    /\ line[i + Len(block) + 1].tk \in {"sep", "newline"}
           /\ \A i \in 1..Len(line) : line[i].txt # Quote(vBlock)
           /\ Cardinality({i \in Places(line, "key") : line[i].txt = kMl})
                 = Cardinality({i \in 1..Len(KeysShown(p)) : KeysShown(p)[i] = kMl})

\* a handler with a wrap width, which has a value of two lines bound inside
\* a group, writes a record that has such a value too
C19_Witness ==
    \E p \in Writing :
        /\ HandlerOf(p).terminalWidth > 0
        /\ HandlerOf(p).groupPrefix # <<>>
        /\ Cardinality({i \in Places(BufOf(p), "key") : BufOf(p)[i].txt = kMl}) = 2

\* the same line of a handler without a wrap width
C19_WitnessNoWidth ==
    \E p \in Writing :
        /\ HandlerOf(p).terminalWidth = 0
        /\ Cardinality({i \in Places(BufOf(p), "key") : BufOf(p)[i].txt = kMl}) = 2

\* the escapes of a quoted literal and the character each stands for
Escapes ==
    { [esc |-> <<"\\", "\"">>, char |-> "\""],
      [esc |-> <<"\\", "\\">>, char |-> "\\"],
      [esc |-> <<"\\", "n">>, char |-> "\n"],
      [esc |-> <<"\\", "t">>, char |-> "\t"],
      [esc |-> <<"\\", "r">>, char |-> "\r"],
      [esc |-> <<"\\", "x", "7", "f">>, char |-> DEL],
      [esc |-> <<"\\", "u", "0", "0", "a", "0">>, char |-> NBSP] }

StartsWith(t, u) == Len(u) <= Len(t) /\ SubSeq(t, 1, Len(u)) = u

\* the escape that text t starts with
EscapeAt(t) == CHOOSE e \in Escapes : StartsWith(t, e.esc)

RECURSIVE ValidBody(_)
\* what stands between the quotes of a literal: escapes that are known, and
\* no quote or newline outside an escape
ValidBody(t) ==
    IF t = <<>> THEN TRUE
    ELSE IF Head(t) = "\\"
    THEN /\ \E e \in Escapes : StartsWith(t, e.esc)
         /\ ValidBody(SubSeq(t, Len(EscapeAt(t).esc) + 1, Len(t)))
    ELSE Head(t) \notin {"\"", "\n"} /\ ValidBody(Tail(t))

RECURSIVE UnquoteBody(_)
UnquoteBody(t) ==
    IF t = <<>> THEN <<>>
    ELSE IF Head(t) = "\\"
    THEN <<EscapeAt(t).char>> \o UnquoteBody(SubSeq(t, Len(EscapeAt(t).esc) + 1, Len(t)))
    ELSE <<Head(t)>> \o UnquoteBody(Tail(t))

\* t is a quoted literal
IsQuoted(t) ==
    /\ Len(t) >= 2
    /\ t[1] = "\""
    /\ t[Len(t)] = "\""
    /\ ValidBody(SubSeq(t, 2, Len(t) - 1))

\* strconv.Unquote of a quoted literal
Unquote(t) == UnquoteBody(SubSeq(t, 2, Len(t) - 1))

\* the control characters
ControlChars == {"\n", "\t", "\r", DEL}

\* what the line of goroutine p shows for the value of the record's attribute
ShownValue(p) ==
    LET line == BufOf(p)
    IN ValueAt(line, CHOOSE i \in Places(line, "key") : line[i].txt = kOk)

\* a single-line string is shown as it is when it is not empty and holds no
\* character of the set special, and else as a quoted literal that unquotes
\* to it
QuotedFor(special) ==
    \A p \in Writing :
        LET v == procs[p].r.Attrs[1].Value.str
        IN IF v # <<>> /\ \A i \in 1..Len(v) : v[i] \notin special
           THEN ShownValue(p) = v
           ELSE IsQuoted(ShownValue(p)) /\ Unquote(ShownValue(p)) = v

\* C20: a single-line string is shown as it is when it is not
\* empty and holds no space, no equals sign, no quote, no control character
\* and no character that is not printable, and else as a quoted literal that
\* unquotes to the string.
C20_QuotedWhenSpecial ==
    QuotedFor({" ", "=", "\""} \cup ControlChars \cup NonPrintChars)

\* What holds of the code: the same, but that the delete character is shown
\* as it is, like a letter.  The characters that make a string quoted are the
\* space, the equals sign, the quote, the control characters below the space,
\* and the characters outside ASCII that are spaces or not printable.
C20_QuotedButForDelete ==
    QuotedFor(({" ", "=", "\""} \cup ControlChars \cup NonPrintChars) \ {DEL})

\* a string with a quote and a backslash is shown quoted
C20_ShownQuoted ==
    \E p \in Writing :
        /\ procs[p].r.Attrs[1].Value.str = <<"\"", "\\">>
        /\ ShownValue(p) = <<"\"", "\\", "\"", "\\", "\\", "\"">>

\* a string with the delete character in it is shown as it is
C20_DeleteShownRaw ==
    \E p \in Writing :
        /\ procs[p].r.Attrs[1].Value.str = <<"a", DEL>>
        /\ ShownValue(p) = <<"a", DEL>>

\* the chunks of a line that were written as the bare message
BareMessages(line) == {line[i] : i \in Places(line, "msg")}

\* C21: in every handler configuration, with a replace hook or without one,
\* a line holds the record's message once, as the message was given and with
\* no style, and holds no key named msg for it.
C21_MessageRaw ==
    \A p \in Writing :
        /\ BareMessages(BufOf(p)) = {Chunk("msg", NoColor, procs[p].r.Message)}
        /\ \A i \in TopLevelKeys(BufOf(p)) :
              i <= AttrsPos(p) => BufOf(p)[i].txt # MessageKey

\* without a hook the message is written as it is
C21_RawWithoutHook ==
    \E p \in Writing :
        /\ HandlerOf(p).opts.ReplaceAttr = NoHook
        /\ BareMessages(BufOf(p)) = {Chunk("msg", NoColor, procs[p].r.Message)}

\* with a hook the message is written as the value of the attribute msg
C21_KeyedWithHook ==
    \E p \in Writing :
        /\ HandlerOf(p).opts.ReplaceAttr # NoHook
        /\ BareMessages(BufOf(p)) = {}
        /\ \E i \in TopLevelKeys(BufOf(p)) :
              /\ BufOf(p)[i].txt = MessageKey
              /\ BufOf(p)[i + 2] = Chunk("value", NoColor, procs[p].r.Message)

\* the text of the first attribute of a list that is named k and has a text
\* that is not empty; the empty text when the list has none
RECURSIVE FirstIn(_, _)
FirstIn(as, k) ==
    IF as = <<>> THEN <<>>
    ELSE IF Head(as).Key = k /\ Sprint(Head(as).Value) # <<>> THEN Sprint(Head(as).Value)
    ELSE FirstIn(Tail(as), k)

\* the text that the first WithAttrs call of a history to supply one for k
\* supplied; the empty text when no call did
RECURSIVE FirstSupplied(_, _)
FirstSupplied(hist, k) ==
    IF hist = <<>> THEN <<>>
    ELSE LET here == IF Head(hist).op = "WithAttrs"
                     THEN FirstIn(splitModule(<<>>, <<>>, Head(hist).attrs).goodAttrs, k)
                     ELSE <<>>
         IN IF here # <<>> THEN here ELSE FirstSupplied(Tail(hist), k)

\* the text the commonHandler of handler j has cached for context key k
Cached(j, k) == MapGet(chs[handlers[j].ch].contextValues, k)

\* C22: for every handler and every context key, the cached context value is
\* the text of the first attribute named as the key, with a text that is not
\* empty, that the WithAttrs calls that made the handler were given, in the
\* order of the calls; and a handler made from one that has a value cached
\* for the key has that same value cached.
C22_FirstBindKept ==
    \A j \in 1..Len(handlers) :
        \A n \in 1..Len(chs[handlers[j].ch].contextKeys) :
            LET k == chs[handlers[j].ch].contextKeys[n]
            IN /\ Cached(j, k) = FirstSupplied(handlers[j].hist, k)
               /\ handlers[j].parent # 0 /\ Cached(handlers[j].parent, k) # <<>>
                     => Cached(j, k) = Cached(handlers[j].parent, k)

\* rid = x is bound and then rid = y is bound on the handler that gave, and
\* the handler made last has x cached
C22_Witness ==
    \E j \in Bound :
          /\ handlers[j].parent \in Bound
          /\ \E i \in 1..Len(BoundList(j)) : BoundList(j)[i] = aRidY
          /\ BoundList(handlers[j].parent) = <<aRidX, aK>>
          /\ Cached(j, kRid) = vX

\* the empty text is bound for rid and then x is bound on the handler that
\* gave: the handler made last has x cached
C22_EmptyThenBound ==
    \E j \in Bound :
        /\ handlers[j].parent \in Bound
        /\ BoundList(j) = <<aRidX, aK>>
        /\ BoundList(handlers[j].parent) = <<aRidEmpty, aErr>>
        /\ Cached(handlers[j].parent, kRid) = <<>>
        /\ Cached(j, kRid) = vX

\* the attributes that the WithAttrs calls of a history handed to withAttrs
RECURSIVE BoundAttrs(_)
BoundAttrs(hist) ==
    IF hist = <<>> THEN <<>>
    ELSE (IF Head(hist).op = "WithAttrs"
          THEN splitModule(<<>>, <<>>, Head(hist).attrs).goodAttrs
          ELSE <<>>)
         \o BoundAttrs(Tail(hist))

\* the keys that the bound bytes of a commonHandler show
BoundKeyNames(h) ==
    {h.preformattedAttrs[i].txt : i \in Places(h.preformattedAttrs, "key")}

\* the handler values with a WithGroup call in their history before the
\* WithAttrs call that made them
BoundInGroup == {j \in Bound : GroupsOf(handlers[j].hist) # <<>>}

\* C23: every attribute that a WithAttrs call was given under the name of a
\* context key is cached by the handler the call made, no key of the bound
\* bytes is named as a context key, and every line of a handler shows, in the
\* context section, the text of every such attribute that was bound to it;
\* whether or not WithGroup calls came before the WithAttrs call.
C23_BoundContextKeyShown ==
    /\ \A j \in Bound : \A i \in 1..Len(BoundList(j)) :
          IsContextKey(chs[handlers[j].ch], BoundList(j)[i].Key)
             => Cached(j, BoundList(j)[i].Key) = Sprint(BoundList(j)[i].Value)
    /\ \A j \in 1..Len(handlers) : \A n \in 1..Len(chs[handlers[j].ch].contextKeys) :
          chs[handlers[j].ch].contextKeys[n] \notin BoundKeyNames(chs[handlers[j].ch])
    /\ \A p \in Writing :
          LET as == BoundAttrs(ValueOf(p).hist)
              shown == ShownParts(BufOf(p))
          IN \A i \in 1..Len(as) :
                IsContextKey(HandlerOf(p), as[i].Key)
                   => \E n \in 1..Len(shown) : shown[n] = Sprint(as[i].Value)

\* the attribute bound under the name of a context key whose text is the first
\* one, not empty, that was bound for the key is cached by the handler and by
\* the handlers made from it, no key of the bound bytes is named as a context
\* key, and every line of such a handler shows the text in the context
\* section; whether or not WithGroup calls came before the WithAttrs call
C23_FirstBoundContextKeyShown ==
    /\ \A j \in 1..Len(handlers) : \A n \in 1..Len(chs[handlers[j].ch].contextKeys) :
          LET k == chs[handlers[j].ch].contextKeys[n]
          IN /\ FirstSupplied(handlers[j].hist, k) # <<>>
                   => Cached(j, k) = FirstSupplied(handlers[j].hist, k)
             /\ k \notin BoundKeyNames(chs[handlers[j].ch])
    /\ \A p \in Writing : \A n \in 1..Len(HandlerOf(p).contextKeys) :
          LET k == HandlerOf(p).contextKeys[n]
              shown == ShownParts(BufOf(p))
          IN FirstSupplied(ValueOf(p).hist, k) # <<>>
                => \E m \in 1..Len(shown) : shown[m] = FirstSupplied(ValueOf(p).hist, k)

\* with a hook, rid = x and k are bound after WithGroup(a): the line shows x in
\* the context section and no key of the bound bytes is rid
C23_Witness ==
    \E p \in Writing :
        /\ procs[p].h \in BoundInGroup
        /\ HandlerOf(p).opts.ReplaceAttr # NoHook
        /\ BoundList(procs[p].h) = <<aRidX, aK>>
        /\ Cached(procs[p].h, kRid) = vX
        /\ ShownParts(BufOf(p)) = <<vX>>
        /\ kRid \notin BoundKeyNames(HandlerOf(p))

\* the empty text is bound for rid after WithGroup(a): nothing is shown for it
C23_EmptyBoundAfterGroup ==
    \E p \in Writing :
        /\ procs[p].h \in BoundInGroup
        /\ BoundList(procs[p].h) = <<aRidEmpty, aErr>>
        /\ ShownParts(BufOf(p)) = <<>>

\* an attribute that is not rendered: at the top level of a list it is named
\* as a context key; or it is the empty attribute, or the hook drops it; or it
\* is a group with no child that is rendered
RECURSIVE NotRendered(_, _, _)
NotRendered(h, a, top) ==
    IF a.Value.kind = "Group"
    THEN \A i \in 1..Len(a.Value.group) : NotRendered(h, a.Value.group[i], FALSE)
    ELSE \/ top /\ IsContextKey(h, a.Key)
         \/ isEmpty(a)
         \/ h.opts.ReplaceAttr # NoHook /\ isEmpty(ReplaceAttr(h.opts.ReplaceAttr, <<>>, a))

\* the handler values made by a WithAttrs call that was given at least one
\* attribute and none that is rendered
BoundUnrendered ==
    {j \in Bound :
        LET as == splitModule(<<>>, <<>>, BoundList(j)).goodAttrs
        IN /\ as # <<>>
           /\ \A i \in 1..Len(as) : NotRendered(chs[handlers[j].ch], as[i], TRUE)}

\* those of them whose list held a group of no children
BoundEmptyGroup ==
    {j \in BoundUnrendered : \E i \in 1..Len(BoundList(j)) : isEmptyGroup(BoundList(j)[i].Value)}

\* what follows the message in the line handle renders for h and r: the bound
\* attributes and the record's
AttrSection(h, r, module) ==
    LET line == handle(h, r, module, 0).buf
        pos == BufLen(handleBuiltIns(h, r, module, 0).buf)
    IN SubSeq(line, pos + 1, Len(line))

\* the commonHandler of the handler that handler j was made from
ParentOf(j) == chs[handlers[handlers[j].parent].ch]

\* a WithAttrs call that renders no attribute leaves the bound bytes it was
\* called on, and records are rendered after the message as they are by the
\* handler it was called on
SameBytes(j) ==
    /\ chs[handlers[j].ch].preformattedAttrs = ParentOf(j).preformattedAttrs
    /\ InHandle = {} =>
          \A r \in GroupRecords :
              AttrSection(chs[handlers[j].ch], r, handlers[j].module)
                 = AttrSection(ParentOf(j), r, handlers[handlers[j].parent].module)

\* such a call leaves the cached prefix and the count of opened groups
SameGroups(j) ==
    /\ chs[handlers[j].ch].groupPrefix = ParentOf(j).groupPrefix
    /\ chs[handlers[j].ch].nOpenGroups = ParentOf(j).nOpenGroups

C24_EmptyGroupOpensGroups ==
    \E j \in BoundEmptyGroup :
        /\ chs[handlers[j].ch].preformattedAttrs = ParentOf(j).preformattedAttrs
        /\ ParentOf(j).nOpenGroups = 0
        /\ chs[handlers[j].ch].nOpenGroups = 1
        /\ chs[handlers[j].ch].groupPrefix = gA \o <<".">>

\* the handler values that a WithGroup call made
Grouped == {j \in 1..Len(handlers) :
               /\ handlers[j].hist # <<>>
               /\ handlers[j].hist[Len(handlers[j].hist)].op = "WithGroup"}

\* the name the WithGroup call that made handler j was given
GroupName(j) == handlers[j].hist[Len(handlers[j].hist)].name

\* the fields of a commonHandler that say what is bound to it
BoundState(h) ==
    [preformattedAttrs |-> h.preformattedAttrs,
     groupPrefix |-> h.groupPrefix,
     nOpenGroups |-> h.nOpenGroups,
     contextKeys |-> h.contextKeys,
     contextValues |-> h.contextValues,
     importantKeys |-> h.importantKeys,
     criticalKeys |-> h.criticalKeys,
     opts |-> h.opts]

\* the calls that log, through a handler with a WithGroup call in its history,
\* a record of which no attribute is rendered
UnrenderedInGroup ==
    {p \in Writing :
        /\ GroupsOf(ValueOf(p).hist) # <<>>
        /\ \A i \in 1..Len(procs[p].r.Attrs) :
              NotRendered(HandlerOf(p), procs[p].r.Attrs[i], FALSE)}

\* C25: a WithGroup call gives a handler with the name appended to the open
\* groups and with the bound bytes, the cached prefix, the count of opened
\* groups and the keys and values of the handler it was called on; and when no
\* attribute of a record is rendered, the line of a handler with WithGroup
\* calls in its history ends after the bound attributes, with no byte for the
\* groups.
C25_WithGroupWritesNothing ==
    /\ \A j \in Grouped :
          /\ chs[handlers[j].ch].groups = Append(ParentOf(j).groups, GroupName(j))
          /\ BoundState(chs[handlers[j].ch]) = BoundState(ParentOf(j))
          /\ handlers[j].module = handlers[handlers[j].parent].module
    /\ \A p \in UnrenderedInGroup :
          /\ RecordSection(p) = <<Chunk("newline", NoColor, <<"\n">>)>>
          /\ \A i \in Places(BufOf(p), "prefix") : i <= AttrsPos(p)

\* with a hook that drops k, a record that holds k alone is logged through a
\* handler made by WithGroup: the line ends after the marker
C25_Witness ==
    \E p \in UnrenderedInGroup :
        /\ procs[p].h \in Grouped
        /\ procs[p].r.Attrs = <<aK>>
        /\ HandlerOf(p).preformattedAttrs = <<>>
        /\ Places(BufOf(p), "prefix") = {}

\* a record with no attribute is logged through a handler made by WithGroup
\* from one that has err bound
C25_WitnessNoAttrs ==
    \E p \in UnrenderedInGroup :
        /\ procs[p].h \in Grouped
        /\ procs[p].r.Attrs = <<>>
        /\ kErr \in BoundKeyNames(HandlerOf(p))

\* the places of the keys that a line shows for the attributes at the top
\* level of the record that are no groups
TopRecordKeys(p) ==
    {i \in RecordKeys(p) :
        \E n \in 1..Len(procs[p].r.Attrs) :
            /\ procs[p].r.Attrs[n].Value.kind # "Group"
            /\ procs[p].r.Attrs[n].Key = BufOf(p)[i].txt
            /\ \A m \in 1..Len(procs[p].r.Attrs) :
                  procs[p].r.Attrs[m].Value.kind = "Group"
                     => BufOf(p)[i].txt \notin DottedKeys(<<>>, procs[p].r.Attrs[m].Value.group)}

\* the names of the WithGroup calls are the open groups of the handler, the
\* cached prefix holds the first nOpenGroups of them, and a key at the top
\* level of the record is shown after each of them, once and in the order
\* of the calls
NamesOnce(p) ==
    /\ HandlerOf(p).groups = GroupsOf(ValueOf(p).hist)
    /\ HandlerOf(p).groupPrefix
          = Dotted(SubSeq(HandlerOf(p).groups, 1, HandlerOf(p).nOpenGroups))
    /\ \A i \in TopRecordKeys(p) :
          FullKey(BufOf(p), i) = Dotted(GroupsOf(ValueOf(p).hist)) \o BufOf(p)[i].txt

\* C26: after any WithGroup and WithAttrs calls, every key at the top level of
\* a record is shown with, before it, the name of each WithGroup call once, in
\* the order of the calls: the names that a WithAttrs call that rendered put
\* into the cached prefix are not opened again, and the others are opened for
\* the record.
C26_GroupNamesOnceInOrder == \A p \in Writing : NamesOnce(p)

\* without a hook the names are shown once and in order
C26_OnceInOrderWithoutHook ==
    \A p \in Writing : HandlerOf(p).opts.ReplaceAttr = NoHook => NamesOnce(p)

\* WithGroup(a), a WithAttrs call that renders err, and a record with k: the
\* name is in the cached prefix and k is shown as a.k
C26_BakedNotReopened ==
    \E p \in Writing :
        /\ HandlerOf(p).groups = <<gA>>
        /\ HandlerOf(p).nOpenGroups = 1
        /\ procs[p].r.Attrs = <<aK>>
        /\ \E i \in TopRecordKeys(p) : FullKey(BufOf(p), i) = gA \o <<".">> \o kK

\* WithGroup(a), WithGroup(b) and a record with k: no name is in the cached
\* prefix and k is shown as a.b.k
C26_OpenedForRecord ==
    \E p \in Writing :
        /\ HandlerOf(p).groups = <<gA, gB>>
        /\ HandlerOf(p).nOpenGroups = 0
        /\ \E i \in TopRecordKeys(p) :
              FullKey(BufOf(p), i) = gA \o <<".">> \o gB \o <<".">> \o kK

\* with a hook that drops k, the group grp that holds k alone and err are
\* bound after WithGroup(a): the cached prefix is a.grp. and the record's err
\* is shown as a.grp.grp.err
C26_GroupKeyBaked ==
    \E p \in Writing :
        /\ procs[p].h \in Bound
        /\ BoundList(procs[p].h) = <<aGroupK, aErr>>
        /\ HandlerOf(p).groups = <<gA>>
        /\ HandlerOf(p).groupPrefix = gA \o <<".">> \o kGrp \o <<".">>
        /\ \E i \in TopRecordKeys(p) :
              FullKey(BufOf(p), i)
                 = gA \o <<".">> \o kGrp \o <<".">> \o kGrp \o <<".">> \o kErr

\* the groups that are given as attributes
GroupAttrs == {aGroupK, aGroupRid, aEmptyGroup}

\* the state in which handle begins the attributes of a record on h
RecordState(h) ==
    openGroups([newHandleState(h, <<>>, TRUE, <<>>) EXCEPT !.prefix = @ \o h.groupPrefix])

\* appendAttr leaves the prefix and the group names of state s as they were
\* when it is given the group a
LeavesGroups(s, a) ==
    /\ appendAttr(s, a).s.prefix = s.prefix
    /\ appendAttr(s, a).s.groups = s.groups
    /\ appendAttr(s, a).s.groupsNil = s.groupsNil

\* C27: appendAttr, given a group, leaves the prefix of the state and the
\* group names kept for the hook as they were before, also when every child
\* of the group is dropped; so the cached prefix of no handler holds the name
\* of a group that was bound as an attribute, and no line shows an attribute
\* that follows a group in the record with the name of the group in its key.
C27_GroupLeavesPrefix ==
    /\ \A j \in 1..Len(handlers) : \A a \in GroupAttrs :
          LeavesGroups(RecordState(chs[handlers[j].ch]), a)
    /\ \A c \in 1..Len(chs) :
          chs[c].groupPrefix = Dotted(SubSeq(chs[c].groups, 1, chs[c].nOpenGroups))
    /\ \A p \in Writing : \A i \in TopRecordKeys(p) :
          FullKey(BufOf(p), i) = Dotted(GroupsOf(ValueOf(p).hist)) \o BufOf(p)[i].txt

\* a group that has a child that is rendered leaves the prefix and the group
\* names as they were
C27_RenderedGroupClosed ==
    \A j \in 1..Len(handlers) : \A a \in GroupAttrs :
        LET s == RecordState(chs[handlers[j].ch])
        IN (a = aEmptyGroup \/ appendAttr(s, a).ok) => LeavesGroups(s, a)

\* with a hook that drops k, on a handler made by WithGroup(a): the group grp
\* that holds k alone leaves grp in the prefix and among the group names
C27_DroppedGroupStaysOpen ==
    \E j \in Grouped :
        LET s == RecordState(chs[handlers[j].ch])
        IN /\ s.prefix = gA \o <<".">>
           /\ ~appendAttr(s, aGroupK).ok
           /\ appendAttr(s, aGroupK).s.prefix = gA \o <<".">> \o kGrp \o <<".">>
           /\ appendAttr(s, aGroupK).s.groups = <<gA, kGrp>>
           /\ appendAttr(s, aGroupK).s.buf = s.buf

\* the Buffers goroutine p refers to: its line buffer and the scratch Buffer
\* of writeEscapedForOutput
RefersTo(p) == {procs[p].buf, procs[p].bb} \ {0}

\* C28: no goroutine goes on to use a Buffer that it has returned to the
\* pool, the scratch Buffer of writeEscapedForOutput included, and no Buffer
\* is referred to by two goroutines at once.
C28_NoUseAfterFree ==
    /\ \A p \in Goroutines : RefersTo(p) \cap bufPool = {}
    /\ \A p \in Goroutines : \A q \in Goroutines \ {p} : RefersTo(p) \cap RefersTo(q) = {}

\* a goroutine is in writeEscapedForOutput after bb.Free(): the scratch Buffer
\* it is about to write lies in the pool
C28_WritesFreedBuffer ==
    \E p \in Goroutines :
        /\ procs[p].pc = "escape"
        /\ procs[p].bb \in bufPool

\* the scratch Buffer that one goroutine freed and is about to write is the
\* line buffer of another goroutine's call
C28_SharedBuffer ==
    \E p \in Goroutines : \E q \in Goroutines \ {p} :
        /\ procs[p].pc = "escape"
        /\ procs[q].pc \in {"lock", "write", "written"}
        /\ procs[p].bb = procs[q].buf

\* the line buffers of the calls are taken from the pool and returned once:
\* no two calls render their line in one Buffer
C28_LineBuffersApart ==
    \A p \in InHandle : \A q \in InHandle \ {p} : procs[p].buf # procs[q].buf

\* the column a cursor at column col stands at after text was written
RECURSIVE ColumnAfter(_, _)
ColumnAfter(text, col) ==
    IF text = <<>> THEN col
    ELSE ColumnAfter(Tail(text), IF Head(text) = "\n" THEN 0 ELSE col + 1)

\* the number of columns a buffer holds after its last line break
RECURSIVE ColumnsFrom(_, _)
ColumnsFrom(buf, col) ==
    IF buf = <<>> THEN col ELSE ColumnsFrom(Tail(buf), ColumnAfter(Head(buf).txt, col))

\* the state of the render of goroutine p's call before the last newline
RenderOf(p) == handleState(HandlerOf(p), procs[p].r, ValueOf(p).module, procs[p].loaded)

\* the state of that render when the message was written
BuiltInsOf(p) == handleBuiltIns(HandlerOf(p), procs[p].r, ValueOf(p).module, procs[p].loaded)

\* C29: the cursor position of a render is the number of columns written to
\* the buffer since the last line break, when the message was written and
\* when the attributes were: bound bytes, prefixes and values of every kind
\* advance it, and every line break resets it.
C29_CursorIsColumn ==
    \A p \in Writing :
        /\ BuiltInsOf(p).linePos = ColumnsFrom(BuiltInsOf(p).buf, 0)
        /\ RenderOf(p).linePos = ColumnsFrom(RenderOf(p).buf, 0)

\* the cursor is right after the built-in attributes and the message
C29_RightAtMessage ==
    \A p \in Writing : BuiltInsOf(p).linePos = ColumnsFrom(BuiltInsOf(p).buf, 0)

\* the cursor is right after a record whose attributes are strings of one
\* line, in groups or not, on a handler with no bound bytes
C29_RightForStrings ==
    \A p \in Writing :
        (/\ HandlerOf(p).preformattedAttrs = <<>>
         /\ procs[p].r.Attrs \in {<<aK>>, <<aGroupK>>, <<aK, aErr>>})
            => RenderOf(p).linePos = ColumnsFrom(RenderOf(p).buf, 0)

\* k is bound and a record with k is logged: the cursor leaves out the columns
\* of the bound bytes
C29_BoundBytesNotCounted ==
    \E p \in Writing :
        /\ Len(HandlerOf(p).preformattedAttrs) = 3
        /\ procs[p].r.Attrs = <<aK>>
        /\ HandlerOf(p).terminalWidth = 0
        /\ HandlerOf(p).opts.ReplaceAttr = NoHook
        /\ ColumnsFrom(RenderOf(p).buf, 0) - RenderOf(p).linePos
              = ColumnsFrom(HandlerOf(p).preformattedAttrs, 0)

\* a record with the number sid = 7: the cursor leaves out the column of the
\* number
C29_NumberNotCounted ==
    \E p \in Writing :
        /\ HandlerOf(p).preformattedAttrs = <<>>
        /\ procs[p].r.Attrs = <<aK, aErr, aSid7>>
        /\ HandlerOf(p).terminalWidth = 0
        /\ ColumnsFrom(RenderOf(p).buf, 0) = RenderOf(p).linePos + 1

\* a record that ends with a string of two lines: the buffer ends with a line
\* break and the cursor is not at column 0
C29_BlockNotReset ==
    \E p \in Writing :
        /\ procs[p].r.Attrs = <<aGroupK, aBlock>>
        /\ ColumnsFrom(RenderOf(p).buf, 0) = 0
        /\ RenderOf(p).linePos > 0

\* the first place of the level in a line
LevelAt(line) == CHOOSE i \in Places(line, "level") : TRUE

\* a line without its time: the level, the context values, the module name,
\* the message and the attributes
AfterTime(line) == SubSeq(line, LevelAt(line), Len(line))

\* a commonHandler without its lastTime
ButLastTime(h) == [h EXCEPT !.lastTime = 0]

\* a step of a Handle call
Handles == procs' # procs

\* C30: no step of a Handle call, whether its Write succeeds or fails, makes
\* or drops a handler or changes a field of a commonHandler other than
\* lastTime: the bound bytes, the groups, the open groups, the group prefix,
\* the key sets, the context keys and the cached context values stay.  So
\* while the line of a record is with the sink, a Handle call of the same
\* record on the same handler, for whatever lastTime holds by then, renders
\* the same level, context values, module name, message and attributes.
C30_HandleKeepsHandlerState ==
    /\ [][Handles => /\ handlers' = handlers
                     /\ Len(chs') = Len(chs)
                     /\ \A c \in 1..Len(chs) : ButLastTime(chs'[c]) = ButLastTime(chs[c])]_vars
    /\ [](\A p \in Writing :
             AfterTime(handle(HandlerOf(p), procs[p].r, ValueOf(p).module,
                              HandlerOf(p).lastTime).buf)
                 = AfterTime(BufOf(p)))

\* a handler with bound bytes and a cached context value handled the record
\* of the morning and then, twice, the record of noon: the first line of the
\* record of noon showed the long time, this one shows the short time, and
\* the Write of it failed
C30_Witness ==
    \E p \in Goroutines :
        /\ procs[p].pc = "unlock"
        /\ procs[p].err = "EIO"
        /\ procs[p].r.Time = tNoon
        /\ procs[p].loaded = Unix(tNoon)
        /\ HandlerOf(p).lastTime = Unix(tNoon)
        /\ HandlerOf(p).preformattedAttrs # <<>>
        /\ DOMAIN HandlerOf(p).contextValues # {}
        /\ \E i \in Places(BufOf(p), "time") : BufOf(p)[i].st = "mini"

\* the record of noon is handled after the record of the morning, and its
\* line shows the long time: lastTime is the one thing that another Handle
\* call sees changed
C30_TimeSectionDiffers ==
    \E p \in Writing :
        /\ procs[p].r.Time = tNoon
        /\ procs[p].loaded = Unix(tMorning)
        /\ \E i \in Places(BufOf(p), "time") : BufOf(p)[i].st = "full"

\* the same of the handler state when two goroutines handle at once
C30_StateKeptByEveryGoroutine ==
    [][Handles => /\ handlers' = handlers
                  /\ \A c \in 1..Len(chs) : ButLastTime(chs'[c]) = ButLastTime(chs[c])]_vars

====
